---- MODULE Spec2Model ----
(***************************************************************************)
(* ArchAi drawing engine (src/index.tsx, component App): the entity list,  *)
(* the tool state machine driven by pointer and keyboard handlers, the     *)
(* selection transforms, block authoring and the interpreter (callAI)      *)
(* action-batch applier.                                                   *)
(*                                                                         *)
(* Numbers.  World and screen coordinates are integers.  A division whose  *)
(* result is not an integer, and a square root of a non-square, are not    *)
(* representable: ExactDiv and Sqrt then have no value and TLC stops with  *)
(* an error instead of rounding.  The pointer positions (Pts) lie on the   *)
(* 3-4-5 direction so that every distance the tools compute is an integer. *)
(*                                                                         *)
(* Absent values.  null / undefined is Null (points) or NoName (strings).  *)
(* An entity's optional `selected` flag is always present in the model:    *)
(* absent and false are the same to every reader in the source.            *)
(***************************************************************************)
EXTENDS Integers, Sequences, FiniteSets, TLC

\* ----------------------------------------------------------------- bounds
MaxIds == 3          \* ids generateId hands out in the specification that draws most
MaxTemp == 2         \* POLYLINE presses are enumerated while tempPoints is shorter
MaxCoord == 200      \* drags are enumerated while coordinates stay within +-MaxCoord
MaxRequests == 2     \* interpreter submissions in the specifications of the interpreter
MaxBatch == 2        \* length of an interpreter action batch

\* -------------------------------------------------------------- constants
WallThickness == 5
SnapThreshold == 10
MinWallLength == 5
MinRectSize == 5
MinCircleRadius == 5
DoorWidth == 40
TextFontSize == 12
TableRowHeight == 20
TableColWidth == 60
SegmentTolerance == 8
ZeroSegmentTolerance == 10
CircleTolerance == 5
CentermarkTolerance == 10
TextTolX == 20
TextTolY == 10
ArcTolerance == 10
InsertTolerance == 15
CopyOffset == 20

\* ------------------------------------------------------------------ values
Null == [null |-> TRUE]
NoName == "<null>"
Pt(px, py) == [x |-> px, y |-> py]

\* Screen positions the pointer events are enumerated at.
Pts == {Pt(0, 0), Pt(60, 80)}

ExactDiv(n, d) ==
    IF d > 0 /\ n % d = 0 THEN n \div d
    ELSE IF d < 0 /\ (-n) % (-d) = 0 THEN (-n) \div (-d)
    ELSE CHOOSE q \in {} : TRUE
Abs(n) == IF n < 0 THEN -n ELSE n
Min2(a, b) == IF a < b THEN a ELSE b
Max2(a, b) == IF a > b THEN a ELSE b
Sqrt(n) == CHOOSE r \in 0..n : r * r = n

DistSq(p1, p2) == (p2.x - p1.x) * (p2.x - p1.x) + (p2.y - p1.y) * (p2.y - p1.y)
dist(p1, p2) == Sqrt(DistSq(p1, p2))

screenToWorld(screen, v) ==
    Pt(ExactDiv((screen.x - v.x) * v.zoom.d, v.zoom.n),
       ExactDiv((screen.y - v.y) * v.zoom.d, v.zoom.n))

Has(e, f) == f \in DOMAIN e

ToolTypes == {"SELECT", "WALL", "DOOR", "WINDOW", "TEXT", "CIRCLE", "RECT", "DIMENSION",
              "POLYLINE", "ARC", "INSERT_BLOCK", "LEADER", "TABLE", "CENTERMARK"}
\* Tools a ribbon button sets directly (INSERT_BLOCK is armed by insertBlock only).
RibbonTools == {"SELECT", "WALL", "POLYLINE", "CIRCLE", "ARC", "RECT", "DOOR", "TEXT",
                "DIMENSION", "LEADER", "TABLE", "CENTERMARK"}

VARIABLES
    entities,         \* Entity[]            (useState, line 311)
    blockDefs,        \* set of BlockDefinition, keyed by name (line 312)
    activeBlockName,  \* string | null       (line 313)
    view,             \* {x, y, zoom}        (line 315); zoom is the fraction n/d
    activeTool,       \* ToolType            (line 316)
    isDragging,       \* boolean             (line 318)
    dragStart,        \* screen point | null (line 319)
    drawingStart,     \* world point | null  (line 320)
    tempPoints,       \* world points        (line 321)
    mousePos,         \* world point         (line 322)
    chatHistory,      \* roles of the chat messages (line 323)
    userInput,        \* text of the chat box (line 326)
    isLoading,        \* busy flag           (line 327)
    pendingFile,      \* attachment present  (line 330)
    requests,         \* interpreter requests in flight: the context each one sent
    imageLoads,       \* image files being read: the view each handler captured
    endAlias,         \* ids of the entities whose `end` is the mousePos object itself
    nextId,           \* number of ids generateId has produced
    mounted,          \* the App component is rendered (React unmounts it on a render error)
    limits,           \* [ids, requests]: how many ids are drawn and requests submitted
                      \* in a run; fixed by each specification, read by the guards
    lastEvent         \* the handler that ran last, with what it saw (observation only)

toolVars == <<activeTool, drawingStart, tempPoints, activeBlockName>>
dragVars == <<isDragging, dragStart>>
chatVars == <<chatHistory, userInput, isLoading, pendingFile, requests>>
vars == <<entities, blockDefs, activeBlockName, view, activeTool, isDragging, dragStart,
          drawingStart, tempPoints, mousePos, chatHistory, userInput, isLoading,
          pendingFile, requests, imageLoads, endAlias, nextId, mounted, limits, lastEvent>>

\* generateId (line 157) draws nine base-36 digits at random; the model hands out
\* ids in order, so a draw never repeats an earlier one.
generateId(n) == n + 1

Ev(name) == [op |-> name]

\* A handler runs only while the component is mounted, and none but the interpreter
\* response (whose updater can throw while React renders) unmounts it.
Running == mounted /\ UNCHANGED <<mounted, limits>>

Init ==
    /\ entities = <<>>
    /\ blockDefs = {}
    /\ activeBlockName = NoName
    /\ view = [x |-> 0, y |-> 0, zoom |-> [n |-> 1, d |-> 1]]
    /\ activeTool = "SELECT"
    /\ isDragging = FALSE
    /\ dragStart = Null
    /\ drawingStart = Null
    /\ tempPoints = <<>>
    /\ mousePos = Pt(0, 0)
    /\ chatHistory = <<"model">>
    /\ userInput = ""
    /\ isLoading = FALSE
    /\ pendingFile = FALSE
    /\ requests = <<>>
    /\ imageLoads = <<>>
    /\ endAlias = {}
    /\ nextId = 0
    /\ mounted = TRUE
    /\ lastEvent = Ev("init")

\* ------------------------------------------------------- list helpers
Range(s) == {s[i] : i \in 1..Len(s)}
Ids(list) == {list[i].id : i \in 1..Len(list)}
Selected(list) == SelectSeq(list, LAMBDA e : e.selected)
Unselected(list) == SelectSeq(list, LAMBDA e : ~e.selected)
With(e, f, v) == [g \in DOMAIN e \cup {f} |-> IF g = f THEN v ELSE e[g]]
Without(e, fs) == [g \in DOMAIN e \ fs |-> e[g]]
Shift(p, dx, dy) == Pt(p.x + dx, p.y + dy)

\* ------------------------------------------------------------ hit-testing
\* dist(p, proj) < tol for the projection of p on the segment s-en, parameter
\* clamped to [0,1] (lines 676-681); inside the segment the distance to the
\* projection is |cross| / length.
SegmentNear(p, s, en, tol) ==
    LET l2 == DistSq(s, en)
        dot == (p.x - s.x) * (en.x - s.x) + (p.y - s.y) * (en.y - s.y)
        cross == (p.x - s.x) * (en.y - s.y) - (p.y - s.y) * (en.x - s.x)
    IN  IF dot <= 0 THEN DistSq(p, s) < tol * tol
        ELSE IF dot >= l2 THEN DistSq(p, en) < tol * tol
        ELSE Abs(cross) < tol * Sqrt(l2)

\* |dist(p, c) - r| < tol, without taking the root.
RingNear(p, c, r, tol) ==
    /\ r + tol > 0
    /\ DistSq(p, c) < (r + tol) * (r + tol)
    /\ (r - tol < 0 \/ DistSq(p, c) > (r - tol) * (r - tol))

\* `a || b` on numbers: a when it is present and not 0.
Truthy(e, f) == Has(e, f) /\ e[f] # 0

\* HitSegment measuring the distance to the whole line through start and end, the
\* parameter of the projection not clamped.
HitSegmentUnclamped(ent, p) ==
    IF ~Has(ent, "start") \/ ~Has(ent, "end") THEN FALSE
    ELSE IF DistSq(ent.start, ent.end) = 0
         THEN DistSq(p, ent.start) < ZeroSegmentTolerance * ZeroSegmentTolerance
         ELSE Abs((p.x - ent.start.x) * (ent.end.y - ent.start.y)
                  - (p.y - ent.start.y) * (ent.end.x - ent.start.x))
                  < SegmentTolerance * Sqrt(DistSq(ent.start, ent.end))

HitSegment(ent, p) ==
    IF ~Has(ent, "start") \/ ~Has(ent, "end") THEN FALSE
    ELSE IF DistSq(ent.start, ent.end) = 0
         THEN DistSq(p, ent.start) < ZeroSegmentTolerance * ZeroSegmentTolerance
         ELSE SegmentNear(p, ent.start, ent.end, SegmentTolerance)

HitBox(ent, p) ==
    LET hasW == Truthy(ent, "width") \/ (Has(ent, "colWidth") /\ Has(ent, "cols"))
        hasH == Truthy(ent, "height") \/ (Has(ent, "rowHeight") /\ Has(ent, "rows"))
        w == IF Truthy(ent, "width") THEN ent.width ELSE ent.colWidth * ent.cols
        h == IF Truthy(ent, "height") THEN ent.height ELSE ent.rowHeight * ent.rows
        hasXY == (Has(ent, "x") /\ Has(ent, "y")) \/ (~Has(ent, "x") /\ ~Has(ent, "y") /\ Has(ent, "start"))
        bx == IF Has(ent, "x") THEN ent.x ELSE ent.start.x
        by == IF Has(ent, "y") THEN ent.y ELSE ent.start.y
    IN  /\ hasXY
        /\ hasW /\ hasH      \* a missing size is NaN: every comparison is false
        /\ p.x >= bx /\ p.x <= bx + w /\ p.y >= by /\ p.y <= by + h

HitRound(ent, p) ==
    IF ~Has(ent, "center") THEN FALSE
    ELSE \/ /\ Truthy(ent, "radius") \/ Has(ent, "size")
            /\ RingNear(p, ent.center, IF Truthy(ent, "radius") THEN ent.radius ELSE ent.size,
                        CircleTolerance)
         \/ /\ ent.type = "centermark"
            /\ DistSq(p, ent.center) < CentermarkTolerance * CentermarkTolerance

HitText(ent, p) ==
    /\ Has(ent, "x") /\ Has(ent, "y")
    /\ Abs(p.x - ent.x) < TextTolX /\ Abs(p.y - ent.y) < TextTolY

HitPolyline(ent, p) ==
    /\ Has(ent, "points") /\ Len(ent.points) > 0
    /\ \E i \in 1..Len(ent.points) : ent.points[i].x <= p.x
    /\ \E i \in 1..Len(ent.points) : ent.points[i].x >= p.x
    /\ \E i \in 1..Len(ent.points) : ent.points[i].y <= p.y
    /\ \E i \in 1..Len(ent.points) : ent.points[i].y >= p.y

HitArc(ent, p) ==
    \E q \in {ent.p1, ent.p2, ent.p3} : DistSq(p, q) < ArcTolerance * ArcTolerance

HitInsert(ent, p) == DistSq(p, ent.insertPoint) < InsertTolerance * InsertTolerance

HitTest(ent, p) ==
    IF ent.type \in {"wall", "dimension", "leader"} THEN HitSegment(ent, p)
    ELSE IF ent.type \in {"rect", "image", "table"} THEN HitBox(ent, p)
    ELSE IF ent.type \in {"circle", "centermark"} THEN HitRound(ent, p)
    ELSE IF ent.type = "text" THEN HitText(ent, p)
    ELSE IF ent.type = "polyline" THEN HitPolyline(ent, p)
    ELSE IF ent.type = "arc" THEN HitArc(ent, p)
    ELSE IF ent.type = "insert" THEN HitInsert(ent, p)
    ELSE FALSE

\* entities.find(pred): index of the first match, 0 when there is none.
FindFirst(matches) ==
    IF matches # {}
    THEN CHOOSE i \in matches : \A j \in matches : i <= j
    ELSE 0

\* The topmost entity struck: the last match in list order.
FindLastHit(list, p) ==
    IF \E i \in 1..Len(list) : HitTest(list[i], p)
    THEN CHOOSE i \in 1..Len(list) :
             HitTest(list[i], p) /\ \A j \in (i + 1)..Len(list) : ~HitTest(list[j], p)
    ELSE 0

FindHit(list, p) == FindFirst({i \in 1..Len(list) : HitTest(list[i], p)})

\* ------------------------------------------------------------- ribbon, keys
SetTool(t) ==
    /\ activeTool' = t
    /\ Running
    /\ lastEvent' = Ev("SetTool")
    /\ UNCHANGED <<entities, blockDefs, activeBlockName, view, dragVars, drawingStart,
                   tempPoints, mousePos, chatVars, imageLoads, endAlias, nextId>>

NewPolyline(id, pts) ==
    [id |-> id, type |-> "polyline", points |-> pts, closed |-> FALSE, selected |-> FALSE]

\* handleKeyDown, key Delete or Backspace.
KeyDelete ==
    /\ entities' = Unselected(entities)
    /\ endAlias' = endAlias \cap Ids(Unselected(entities))
    /\ Running
    /\ lastEvent' = [op |-> "KeyDelete", removed |-> Selected(entities)]
    /\ UNCHANGED <<blockDefs, view, toolVars, dragVars, mousePos, chatVars, imageLoads, nextId>>

\* A commit test that accepts a single buffered point.
PolylineReadyAtOne == activeTool = "POLYLINE" /\ Len(tempPoints) > 0

\* The commit test of Enter and of the context click (lines 612, 645).
PolylineReady == activeTool = "POLYLINE" /\ Len(tempPoints) > 1

\* handleKeyDown, key Enter.
KeyEnter ==
    /\ IF PolylineReady
       THEN /\ nextId < limits.ids
            /\ nextId' = generateId(nextId)
            /\ entities' = Append(entities, NewPolyline(nextId', tempPoints))
            /\ tempPoints' = <<>>
       ELSE UNCHANGED <<entities, tempPoints, nextId>>
    /\ Running
    /\ lastEvent' = [op |-> "KeyEnter", tool |-> activeTool, temp |-> Len(tempPoints)]
    /\ UNCHANGED <<blockDefs, activeBlockName, view, activeTool, dragVars, drawingStart,
                   mousePos, chatVars, imageLoads, endAlias>>

\* An Escape that resets the tool and the anchor but keeps the armed block name.
KeyEscapeKeepsBlock ==
    /\ tempPoints' = <<>>
    /\ drawingStart' = Null
    /\ activeTool' = "SELECT"
    /\ Running
    /\ lastEvent' = [op |-> "KeyEscape", tool |-> activeTool, temp |-> Len(tempPoints),
                     start |-> drawingStart # Null, block |-> activeBlockName # NoName]
    /\ UNCHANGED <<entities, blockDefs, activeBlockName, view, dragVars, mousePos, chatVars,
                   imageLoads, endAlias, nextId>>

\* handleKeyDown, key Escape.
KeyEscape ==
    /\ tempPoints' = <<>>
    /\ drawingStart' = Null
    /\ activeTool' = "SELECT"
    /\ activeBlockName' = NoName
    /\ Running
    /\ lastEvent' = [op |-> "KeyEscape", tool |-> activeTool, temp |-> Len(tempPoints),
                     start |-> drawingStart # Null, block |-> activeBlockName # NoName]
    /\ UNCHANGED <<entities, blockDefs, view, dragVars, mousePos, chatVars, imageLoads,
                   endAlias, nextId>>

handleContextMenu ==
    /\ IF PolylineReady
       THEN /\ nextId < limits.ids
            /\ nextId' = generateId(nextId)
            /\ entities' = Append(entities, NewPolyline(nextId', tempPoints))
            /\ tempPoints' = <<>>
            /\ UNCHANGED <<drawingStart, activeTool, activeBlockName>>
       ELSE /\ drawingStart' = Null
            /\ tempPoints' = <<>>
            /\ activeTool' = "SELECT"
            /\ activeBlockName' = NoName
            /\ UNCHANGED <<entities, nextId>>
    /\ Running
    /\ lastEvent' = [op |-> "ContextMenu", tool |-> activeTool, temp |-> Len(tempPoints)]
    /\ UNCHANGED <<blockDefs, view, dragVars, mousePos, chatVars, imageLoads, endAlias>>

\* ------------------------------------------------------------- handleMouseDown
\* Every branch computes worldPos = screenToWorld({mx, my}, view) (line 663).
\* The branch is chosen by e.button and activeTool (lines 665, 724-793).

\* A modifier press that toggles every entity struck at the pointer.
MouseDownSelectToggleAll(p, ctrl) ==
    LET w == screenToWorld(p, view)
        h == FindHit(entities, w)
    IN  /\ activeTool = "SELECT"
        /\ isDragging' = TRUE
        /\ dragStart' = p
        /\ entities' =
              IF ctrl
              THEN [ix \in 1..Len(entities) |-> LET en == entities[ix] IN
                       IF HitTest(en, w) THEN [en EXCEPT !.selected = ~en.selected] ELSE en]
              ELSE [ix \in 1..Len(entities) |-> LET en == entities[ix] IN
                       [en EXCEPT !.selected = IF h # 0 THEN en.id = entities[h].id ELSE FALSE]]
        /\ Running
        /\ lastEvent' = [op |-> "MouseDownSelect", ctrl |-> ctrl, hit |-> h, at |-> w]
        /\ UNCHANGED <<blockDefs, view, toolVars, mousePos, chatVars, imageLoads, endAlias,
                       nextId>>

\* activeTool = SELECT, any button (lines 665-722).
MouseDownSelect(p, ctrl) ==
    LET w == screenToWorld(p, view)
        h == FindHit(entities, w)
    IN  /\ activeTool = "SELECT"
        /\ isDragging' = TRUE
        /\ dragStart' = p
        /\ entities' =
              IF ctrl
              THEN IF h # 0
                   THEN [ix \in 1..Len(entities) |-> LET en == entities[ix] IN
                            IF en.id = entities[h].id
                            THEN [en EXCEPT !.selected = ~en.selected] ELSE en]
                   ELSE entities
              ELSE [ix \in 1..Len(entities) |-> LET en == entities[ix] IN
                       [en EXCEPT !.selected = IF h # 0 THEN en.id = entities[h].id ELSE FALSE]]
        /\ Running
        /\ lastEvent' = [op |-> "MouseDownSelect", ctrl |-> ctrl, hit |-> h, at |-> w]
        /\ UNCHANGED <<blockDefs, view, toolVars, mousePos, chatVars, imageLoads, endAlias,
                       nextId>>

\* Middle button under any other tool (lines 665-667).
MouseDownMiddle(p) ==
    /\ activeTool # "SELECT"
    /\ isDragging' = TRUE
    /\ dragStart' = p
    /\ Running
    /\ lastEvent' = Ev("MouseDownMiddle")
    /\ UNCHANGED <<entities, blockDefs, view, toolVars, mousePos, chatVars, imageLoads,
                   endAlias, nextId>>

MouseDownPolyline(p) ==
    /\ activeTool = "POLYLINE"
    /\ Len(tempPoints) < MaxTemp
    /\ tempPoints' = Append(tempPoints, screenToWorld(p, view))
    /\ Running
    /\ lastEvent' = Ev("MouseDownPolyline")
    /\ UNCHANGED <<entities, blockDefs, activeBlockName, view, activeTool, dragVars,
                   drawingStart, mousePos, chatVars, imageLoads, endAlias, nextId>>

NewArc(id, q1, q2, q3) ==
    [id |-> id, type |-> "arc", p1 |-> q1, p2 |-> q2, p3 |-> q3, selected |-> FALSE]

\* nextPoints.length at which the ARC branch commits (line 728).
ArcCommitLength == 2

MouseDownArc(p) ==
    LET w == screenToWorld(p, view)
        nextPoints == Append(tempPoints, w)
    IN  /\ activeTool = "ARC"
        /\ IF Len(nextPoints) = ArcCommitLength
           THEN /\ nextId < limits.ids
                /\ nextId' = generateId(nextId)
                /\ entities' = Append(entities, NewArc(nextId', nextPoints[1], nextPoints[2], w))
                /\ tempPoints' = <<>>
           ELSE /\ Len(tempPoints) < MaxTemp
                /\ tempPoints' = nextPoints
                /\ UNCHANGED <<entities, nextId>>
        /\ Running
        /\ lastEvent' = [op |-> "MouseDownArc", temp |-> Len(tempPoints)]
        /\ UNCHANGED <<blockDefs, activeBlockName, view, activeTool, dragVars, drawingStart,
                       mousePos, chatVars, imageLoads, endAlias>>

NewInsert(id, name, at, sel) ==
    [id |-> id, type |-> "insert", blockName |-> name, insertPoint |-> at, scale |-> 1,
     rotation |-> 0, selected |-> sel]

MouseDownInsert(p) ==
    /\ activeTool = "INSERT_BLOCK"
    /\ IF activeBlockName # NoName
       THEN /\ nextId < limits.ids
            /\ nextId' = generateId(nextId)
            /\ entities' = Append(entities,
                   NewInsert(nextId', activeBlockName, screenToWorld(p, view), FALSE))
       ELSE UNCHANGED <<entities, nextId>>
    /\ Running
    /\ lastEvent' = Ev("MouseDownInsert")
    /\ UNCHANGED <<blockDefs, view, toolVars, dragVars, mousePos, chatVars, imageLoads,
                   endAlias>>

\* Circumcircle of an arc's three points (lines 752-758): D, and the centre when D # 0.
ArcD(a) == 2 * (a.p1.x * (a.p2.y - a.p3.y) + a.p2.x * (a.p3.y - a.p1.y)
                + a.p3.x * (a.p1.y - a.p2.y))
SqN(q) == q.x * q.x + q.y * q.y
SignedDiv(n, d) == IF d > 0 THEN ExactDiv(n, d) ELSE ExactDiv(-n, -d)
ArcCenter(a) ==
    Pt(SignedDiv(SqN(a.p1) * (a.p2.y - a.p3.y) + SqN(a.p2) * (a.p3.y - a.p1.y)
                 + SqN(a.p3) * (a.p1.y - a.p2.y), ArcD(a)),
       SignedDiv(SqN(a.p1) * (a.p3.x - a.p2.x) + SqN(a.p2) * (a.p1.x - a.p3.x)
                 + SqN(a.p3) * (a.p2.x - a.p1.x), ArcD(a)))

\* size = radius * 1.2
MarkSize(r) == ExactDiv(r * 6, 5)

NewCentermark(id, c, sz) ==
    [id |-> id, type |-> "centermark", center |-> c, size |-> sz, selected |-> FALSE]

\* A CENTERMARK press that takes the first circle or arc, selected or not.
MouseDownCentermarkAny(p) ==
    LET h == FindFirst({i \in 1..Len(entities) :
                 entities[i].type \in {"circle", "arc"}})
        found == h # 0 /\ (entities[h].type = "circle" \/ ArcD(entities[h]) # 0)
        c == IF entities[h].type = "circle" THEN entities[h].center ELSE ArcCenter(entities[h])
        sz == IF entities[h].type = "circle" THEN MarkSize(entities[h].radius)
              ELSE MarkSize(dist(entities[h].p1, c))
    IN  /\ activeTool = "CENTERMARK"
        /\ IF found
           THEN /\ nextId < limits.ids
                /\ nextId' = generateId(nextId)
                /\ entities' = Append(entities, NewCentermark(nextId', c, sz))
           ELSE UNCHANGED <<entities, nextId>>
        /\ Running
        /\ lastEvent' = Ev("MouseDownCentermark")
        /\ UNCHANGED <<blockDefs, view, toolVars, dragVars, mousePos, chatVars, imageLoads,
                       endAlias>>

MouseDownCentermark(p) ==
    LET h == FindFirst({i \in 1..Len(entities) :
                 entities[i].type \in {"circle", "arc"} /\ ~entities[i].selected})
        found == h # 0 /\ (entities[h].type = "circle" \/ ArcD(entities[h]) # 0)
        c == IF entities[h].type = "circle" THEN entities[h].center ELSE ArcCenter(entities[h])
        sz == IF entities[h].type = "circle" THEN MarkSize(entities[h].radius)
              ELSE MarkSize(dist(entities[h].p1, c))
    IN  /\ activeTool = "CENTERMARK"
        /\ IF found
           THEN /\ nextId < limits.ids
                /\ nextId' = generateId(nextId)
                /\ entities' = Append(entities, NewCentermark(nextId', c, sz))
           ELSE UNCHANGED <<entities, nextId>>
        /\ Running
        /\ lastEvent' = Ev("MouseDownCentermark")
        /\ UNCHANGED <<blockDefs, view, toolVars, dragVars, mousePos, chatVars, imageLoads,
                       endAlias>>

\* What prompt("Enter rows,columns") returns, after split and parseInt (lines 766-768).
TableAnswers == {[kind |-> "cancel"], [kind |-> "NaN"],
                 [kind |-> "nums", r |-> 4, c |-> 3], [kind |-> "nums", r |-> 0, c |-> 3],
                 [kind |-> "nums", r |-> -1, c |-> 2]}

NewTable(id, at, r, c) ==
    [id |-> id, type |-> "table", x |-> at.x, y |-> at.y, rows |-> r, cols |-> c,
     rowHeight |-> TableRowHeight, colWidth |-> TableColWidth, selected |-> FALSE]

MouseDownTable(p, ans) ==
    /\ activeTool = "TABLE"
    /\ IF ans.kind = "nums" /\ ans.r # 0 /\ ans.c # 0
       THEN /\ nextId < limits.ids
            /\ nextId' = generateId(nextId)
            /\ entities' = Append(entities, NewTable(nextId', screenToWorld(p, view), ans.r, ans.c))
            /\ activeTool' = "SELECT"
       ELSE UNCHANGED <<entities, nextId, activeTool>>
    /\ Running
    /\ lastEvent' = [op |-> "MouseDownTable", ans |-> ans]
    /\ UNCHANGED <<blockDefs, activeBlockName, view, dragVars, drawingStart, tempPoints,
                   mousePos, chatVars, imageLoads, endAlias>>

\* What prompt("Enter text content") returns: null (cancel), "" or a text.
TextAnswers == {NoName, "", "Text"}

NewText(id, at, content) ==
    [id |-> id, type |-> "text", x |-> at.x, y |-> at.y, content |-> content,
     fontSize |-> TextFontSize, selected |-> FALSE]

MouseDownText(p, content) ==
    /\ activeTool = "TEXT"
    /\ IF content # NoName /\ content # ""
       THEN /\ nextId < limits.ids
            /\ nextId' = generateId(nextId)
            /\ entities' = Append(entities, NewText(nextId', screenToWorld(p, view), content))
            /\ activeTool' = "SELECT"
            /\ drawingStart' = Null
       ELSE /\ drawingStart' = screenToWorld(p, view)
            /\ UNCHANGED <<entities, nextId, activeTool>>
    /\ Running
    /\ lastEvent' = [op |-> "MouseDownText", content |-> content]
    /\ UNCHANGED <<blockDefs, activeBlockName, view, dragVars, tempPoints, mousePos,
                   chatVars, imageLoads, endAlias>>

NewDoor(id, at) ==
    [id |-> id, type |-> "door", x |-> at.x, y |-> at.y, width |-> DoorWidth, rotation |-> 0,
     selected |-> FALSE]

\* A DOOR press that hands the tool back to SELECT as a TEXT press does.
MouseDownDoorToSelect(p) ==
    /\ activeTool = "DOOR"
    /\ nextId < limits.ids
    /\ nextId' = generateId(nextId)
    /\ entities' = Append(entities, NewDoor(nextId', screenToWorld(p, view)))
    /\ drawingStart' = Null
    /\ activeTool' = "SELECT"
    /\ Running
    /\ lastEvent' = Ev("MouseDownDoor")
    /\ UNCHANGED <<blockDefs, activeBlockName, view, dragVars, tempPoints,
                   mousePos, chatVars, imageLoads, endAlias>>

MouseDownDoor(p) ==
    /\ activeTool = "DOOR"
    /\ nextId < limits.ids
    /\ nextId' = generateId(nextId)
    /\ entities' = Append(entities, NewDoor(nextId', screenToWorld(p, view)))
    /\ drawingStart' = Null
    /\ Running
    /\ lastEvent' = Ev("MouseDownDoor")
    /\ UNCHANGED <<blockDefs, activeBlockName, view, activeTool, dragVars, tempPoints,
                   mousePos, chatVars, imageLoads, endAlias>>

\* The remaining tools only record the anchor (line 775).
TwoClickTools == {"WALL", "RECT", "CIRCLE", "DIMENSION", "LEADER", "WINDOW"}

MouseDownAnchor(p) ==
    /\ activeTool \in TwoClickTools
    /\ drawingStart' = screenToWorld(p, view)
    /\ Running
    /\ lastEvent' = Ev("MouseDownAnchor")
    /\ UNCHANGED <<entities, blockDefs, activeBlockName, view, activeTool, dragVars,
                   tempPoints, mousePos, chatVars, imageLoads, endAlias, nextId>>

\* ------------------------------------------------------------- handleMouseMove
\* The positional fields a drag shifts, by entity type (lines 815-833).
MoveEntity(ent, dx, dy) ==
    IF ent.type \in {"wall", "dimension", "leader"}
    THEN [ent EXCEPT !.start = Shift(@, dx, dy), !.end = Shift(@, dx, dy)]
    ELSE IF ent.type = "rect" THEN [ent EXCEPT !.start = Shift(@, dx, dy)]
    ELSE IF ent.type \in {"circle", "centermark"} THEN [ent EXCEPT !.center = Shift(@, dx, dy)]
    ELSE IF ent.type = "polyline"
         THEN [ent EXCEPT !.points = [ix \in 1..Len(@) |-> LET q == @[ix] IN Shift(q, dx, dy)]]
    ELSE IF ent.type = "arc"
         THEN [ent EXCEPT !.p1 = Shift(@, dx, dy), !.p2 = Shift(@, dx, dy),
                          !.p3 = Shift(@, dx, dy)]
    ELSE IF ent.type = "insert" THEN [ent EXCEPT !.insertPoint = Shift(@, dx, dy)]
    ELSE [ent EXCEPT !.x = @ + dx, !.y = @ + dy]

\* Every point an entity holds, for the coordinate bound.
PointsOf(ent) ==
    {ent[f] : f \in DOMAIN ent \cap {"start", "end", "center", "p1", "p2", "p3", "insertPoint"}}
    \cup (IF Has(ent, "points") THEN Range(ent.points) ELSE {})
    \cup (IF Has(ent, "x") /\ Has(ent, "y") THEN {Pt(ent.x, ent.y)} ELSE {})
InRange(q) == Abs(q.x) <= MaxCoord /\ Abs(q.y) <= MaxCoord
AllInRange(list) == \A i \in 1..Len(list) : \A q \in PointsOf(list[i]) : InRange(q)

\* e.buttons values enumerated: none, left, middle.
Buttons == {0, 1, 4}

\* The drag with the selection shifted by the screen distance, undivided by the zoom.
handleMouseMoveScreenShift(p, buttons) ==
    LET dx == p.x - dragStart.x
        dy == p.y - dragStart.y
        hasSelection == \E i \in 1..Len(entities) : entities[i].selected
        wDx == dx
        wDy == dy
    IN  /\ mousePos' = screenToWorld(p, view)
        /\ endAlias' = {}
        /\ IF isDragging /\ dragStart # Null /\ activeTool = "SELECT"
           THEN IF buttons = 4 \/ (buttons = 1 /\ ~hasSelection)
                THEN /\ view' = [view EXCEPT !.x = @ + dx, !.y = @ + dy]
                     /\ InRange(Pt(view'.x, view'.y))
                     /\ dragStart' = p
                     /\ UNCHANGED entities
                ELSE IF buttons = 1 /\ hasSelection
                THEN /\ entities' = [ix \in 1..Len(entities) |-> LET ent == entities[ix] IN
                                        IF ~ent.selected THEN ent ELSE MoveEntity(ent, wDx, wDy)]
                     /\ AllInRange(entities')
                     /\ dragStart' = p
                     /\ UNCHANGED view
                ELSE UNCHANGED <<entities, view, dragStart>>
           ELSE UNCHANGED <<entities, view, dragStart>>
        /\ Running
        /\ lastEvent' = [op |-> "MouseMove", buttons |-> buttons, at |-> p,
                         since |-> IF lastEvent.op = "MouseMove" THEN lastEvent.since
                                   ELSE [at |-> dragStart, entities |-> entities,
                                         view |-> view]]
        /\ UNCHANGED <<blockDefs, toolVars, isDragging, chatVars, imageLoads, nextId>>

handleMouseMove(p, buttons) ==
    LET dx == p.x - dragStart.x
        dy == p.y - dragStart.y
        hasSelection == \E i \in 1..Len(entities) : entities[i].selected
        wDx == ExactDiv(dx * view.zoom.d, view.zoom.n)
        wDy == ExactDiv(dy * view.zoom.d, view.zoom.n)
    IN  /\ mousePos' = screenToWorld(p, view)
        /\ endAlias' = {}
        /\ IF isDragging /\ dragStart # Null /\ activeTool = "SELECT"
           THEN IF buttons = 4 \/ (buttons = 1 /\ ~hasSelection)
                THEN /\ view' = [view EXCEPT !.x = @ + dx, !.y = @ + dy]
                     /\ InRange(Pt(view'.x, view'.y))
                     /\ dragStart' = p
                     /\ UNCHANGED entities
                ELSE IF buttons = 1 /\ hasSelection
                THEN /\ entities' = [ix \in 1..Len(entities) |-> LET ent == entities[ix] IN
                                        IF ~ent.selected THEN ent ELSE MoveEntity(ent, wDx, wDy)]
                     /\ AllInRange(entities')
                     /\ dragStart' = p
                     /\ UNCHANGED view
                ELSE UNCHANGED <<entities, view, dragStart>>
           ELSE UNCHANGED <<entities, view, dragStart>>
        /\ Running
        /\ lastEvent' = [op |-> "MouseMove", buttons |-> buttons, at |-> p,
                         since |-> IF lastEvent.op = "MouseMove" THEN lastEvent.since
                                   ELSE [at |-> dragStart, entities |-> entities,
                                         view |-> view]]
        /\ UNCHANGED <<blockDefs, toolVars, isDragging, chatVars, imageLoads, nextId>>

\* --------------------------------------------------------------- handleMouseUp
NewWall(id, s, en) ==
    [id |-> id, type |-> "wall", start |-> s, end |-> en, thickness |-> WallThickness,
     selected |-> FALSE]
NewRect(id, s, w, h) ==
    [id |-> id, type |-> "rect", start |-> s, width |-> w, height |-> h, selected |-> FALSE]
NewCircle(id, c, r) ==
    [id |-> id, type |-> "circle", center |-> c, radius |-> r, selected |-> FALSE]
NewDimension(id, s, en) ==
    [id |-> id, type |-> "dimension", start |-> s, end |-> en, selected |-> FALSE]
NewLeader(id, s, en, text) ==
    [id |-> id, type |-> "leader", start |-> s, end |-> en, text |-> text, selected |-> FALSE]

\* A release that leaves the pointer's position as the wall's end.
SnapEndNever(s, en) == en

\* The orthogonal snap (lines 844-845) writes into newWall.end, which is the mousePos
\* object: the snapped point.
SnapEnd(s, en) ==
    Pt(IF Abs(s.x - en.x) < SnapThreshold THEN s.x ELSE en.x,
       IF Abs(s.y - en.y) < SnapThreshold THEN s.y ELSE en.y)

\* What prompt("Enter leader text") returns.
LeaderAnswers == {NoName, "Note"}

\* Tools for which handleMouseUp commits nothing (line 841).
NoReleaseTools == {"SELECT", "TEXT", "DOOR", "POLYLINE", "ARC", "INSERT_BLOCK", "TABLE",
                   "CENTERMARK"}

\* handleMouseUp committing a rect with start at the anchor, whichever corner it is.
handleMouseUpRectFromAnchor(ans) ==
    LET s == drawingStart
        en == IF activeTool = "WALL" THEN SnapEnd(s, mousePos) ELSE mousePos
        w == mousePos.x - s.x
        h == mousePos.y - s.y
        commits ==
            CASE activeTool = "WALL" -> DistSq(s, en) > MinWallLength * MinWallLength
              [] activeTool = "RECT" -> Abs(w) > MinRectSize /\ Abs(h) > MinRectSize
              [] activeTool = "CIRCLE" -> DistSq(s, mousePos) > MinCircleRadius * MinCircleRadius
              [] activeTool = "DIMENSION" -> TRUE
              [] activeTool = "LEADER" -> ans # NoName /\ ans # ""
              [] OTHER -> FALSE
        id == generateId(nextId)
        made ==
            CASE activeTool = "WALL" -> NewWall(id, s, en)
              [] activeTool = "RECT" ->
                     NewRect(id, s, Abs(w), Abs(h))
              [] activeTool = "CIRCLE" -> NewCircle(id, s, dist(s, mousePos))
              [] activeTool = "DIMENSION" -> NewDimension(id, s, mousePos)
              [] activeTool = "LEADER" -> NewLeader(id, s, mousePos, ans)
        \* the snap also moves the `end` of every entity that shares the mousePos object
        snapped == [ix \in 1..Len(entities) |-> LET e == entities[ix] IN
                       IF e.id \in endAlias THEN [e EXCEPT !.end = en] ELSE e]
    IN  /\ IF activeTool \notin NoReleaseTools /\ drawingStart # Null
           THEN /\ IF commits
                   THEN /\ nextId < limits.ids
                        /\ nextId' = id
                        /\ entities' = Append(snapped, made)
                        /\ endAlias' = IF activeTool \in {"WALL", "DIMENSION", "LEADER"}
                                       THEN endAlias \cup {id} ELSE endAlias
                   ELSE /\ entities' = snapped
                        /\ UNCHANGED <<nextId, endAlias>>
                /\ mousePos' = en
                /\ drawingStart' = Null
           ELSE UNCHANGED <<entities, nextId, endAlias, mousePos, drawingStart>>
        /\ isDragging' = FALSE
        /\ dragStart' = Null
        /\ Running
        /\ lastEvent' = [op |-> "MouseUp", tool |-> activeTool, anchored |-> drawingStart # Null,
                       from |-> drawingStart, at |-> mousePos]
        /\ UNCHANGED <<blockDefs, activeBlockName, view, activeTool, tempPoints, chatVars,
                       imageLoads>>

handleMouseUp(ans) ==
    LET s == drawingStart
        en == IF activeTool = "WALL" THEN SnapEnd(s, mousePos) ELSE mousePos
        w == mousePos.x - s.x
        h == mousePos.y - s.y
        commits ==
            CASE activeTool = "WALL" -> DistSq(s, en) > MinWallLength * MinWallLength
              [] activeTool = "RECT" -> Abs(w) > MinRectSize /\ Abs(h) > MinRectSize
              [] activeTool = "CIRCLE" -> DistSq(s, mousePos) > MinCircleRadius * MinCircleRadius
              [] activeTool = "DIMENSION" -> TRUE
              [] activeTool = "LEADER" -> ans # NoName /\ ans # ""
              [] OTHER -> FALSE
        id == generateId(nextId)
        made ==
            CASE activeTool = "WALL" -> NewWall(id, s, en)
              [] activeTool = "RECT" ->
                     NewRect(id, Pt(Min2(s.x, mousePos.x), Min2(s.y, mousePos.y)), Abs(w), Abs(h))
              [] activeTool = "CIRCLE" -> NewCircle(id, s, dist(s, mousePos))
              [] activeTool = "DIMENSION" -> NewDimension(id, s, mousePos)
              [] activeTool = "LEADER" -> NewLeader(id, s, mousePos, ans)
        \* the snap also moves the `end` of every entity that shares the mousePos object
        snapped == [ix \in 1..Len(entities) |-> LET e == entities[ix] IN
                       IF e.id \in endAlias THEN [e EXCEPT !.end = en] ELSE e]
    IN  /\ IF activeTool \notin NoReleaseTools /\ drawingStart # Null
           THEN /\ IF commits
                   THEN /\ nextId < limits.ids
                        /\ nextId' = id
                        /\ entities' = Append(snapped, made)
                        /\ endAlias' = IF activeTool \in {"WALL", "DIMENSION", "LEADER"}
                                       THEN endAlias \cup {id} ELSE endAlias
                   ELSE /\ entities' = snapped
                        /\ UNCHANGED <<nextId, endAlias>>
                /\ mousePos' = en
                /\ drawingStart' = Null
           ELSE UNCHANGED <<entities, nextId, endAlias, mousePos, drawingStart>>
        /\ isDragging' = FALSE
        /\ dragStart' = Null
        /\ Running
        /\ lastEvent' = [op |-> "MouseUp", tool |-> activeTool, anchored |-> drawingStart # Null,
                       from |-> drawingStart, at |-> mousePos]
        /\ UNCHANGED <<blockDefs, activeBlockName, view, activeTool, tempPoints, chatVars,
                       imageLoads>>

\* ------------------------------------------------------- selection transforms
\* deleteSelected that also drops the definitions of the blocks whose inserts it removes.
deleteSelectedWithBlocks ==
    LET sel == Selected(entities)
        gone == {sel[i].blockName : i \in {j \in 1..Len(sel) : sel[j].type = "insert"}}
    IN  /\ entities' = Unselected(entities)
        /\ blockDefs' = {d \in blockDefs : d.name \notin gone}
        /\ endAlias' = endAlias \cap Ids(Unselected(entities))
        /\ Running
        /\ lastEvent' = [op |-> "deleteSelected", removed |-> sel]
        /\ UNCHANGED <<view, toolVars, dragVars, mousePos, chatVars, imageLoads, nextId>>

\* deleteSelected (lines 963-965), the ribbon's Trim button (line 1179).
deleteSelected ==
    /\ entities' = Unselected(entities)
    /\ endAlias' = endAlias \cap Ids(Unselected(entities))
    /\ Running
    /\ lastEvent' = [op |-> "deleteSelected", removed |-> Selected(entities)]
    /\ UNCHANGED <<blockDefs, view, toolVars, dragVars, mousePos, chatVars, imageLoads, nextId>>

\* Ids handed to the k-th clone of a transform that clones the selection in order.
RECURSIVE CloneIds(_, _)
CloneIds(n, k) == IF k = 0 THEN <<>> ELSE <<generateId(n)>> \o CloneIds(generateId(n), k - 1)

\* copySelected's clone with an arc's p1, p2, p3 left where they are.
CopyEntityKeepsArc(e, id, off) ==
    LET c0 == [e EXCEPT !.id = id, !.selected = TRUE]
        c1 == IF Has(c0, "start") THEN [c0 EXCEPT !.start = Shift(@, off, off)] ELSE c0
        c2 == IF Has(c1, "end") THEN [c1 EXCEPT !.end = Shift(@, off, off)] ELSE c1
        c3 == IF Has(c2, "center") THEN [c2 EXCEPT !.center = Shift(@, off, off)] ELSE c2
        c4 == IF Has(c3, "x") THEN [c3 EXCEPT !.x = @ + off, !.y = @ + off] ELSE c3
        c5 == IF Has(c4, "points")
              THEN [c4 EXCEPT !.points = [ix \in 1..Len(@) |-> LET q == @[ix] IN Shift(q, off, off)]] ELSE c4
    IN  IF Has(c5, "insertPoint") THEN [c5 EXCEPT !.insertPoint = Shift(@, off, off)] ELSE c5

\* One clone of copySelected (lines 971-982): every positional field present is offset.
CopyEntity(e, id, off) ==
    LET c0 == [e EXCEPT !.id = id, !.selected = TRUE]
        c1 == IF Has(c0, "start") THEN [c0 EXCEPT !.start = Shift(@, off, off)] ELSE c0
        c2 == IF Has(c1, "end") THEN [c1 EXCEPT !.end = Shift(@, off, off)] ELSE c1
        c3 == IF Has(c2, "center") THEN [c2 EXCEPT !.center = Shift(@, off, off)] ELSE c2
        c4 == IF Has(c3, "x") THEN [c3 EXCEPT !.x = @ + off, !.y = @ + off] ELSE c3
        c5 == IF Has(c4, "points")
              THEN [c4 EXCEPT !.points = [ix \in 1..Len(@) |-> LET q == @[ix] IN Shift(q, off, off)]] ELSE c4
        c6 == IF Has(c5, "p1")
              THEN [c5 EXCEPT !.p1 = Shift(@, off, off), !.p2 = Shift(@, off, off),
                              !.p3 = Shift(@, off, off)] ELSE c5
    IN  IF Has(c6, "insertPoint") THEN [c6 EXCEPT !.insertPoint = Shift(@, off, off)] ELSE c6

\* copySelected with the offset taken in world units, whatever the zoom.
copySelectedWorldOffset ==
    LET sel == Selected(entities)
        ids == CloneIds(nextId, Len(sel))
        copies == [i \in 1..Len(sel) |-> CopyEntity(sel[i], ids[i], CopyOffset)]
    IN  /\ nextId + Len(sel) <= limits.ids
        /\ entities' = [ix \in 1..Len(entities) |-> LET e == entities[ix] IN [e EXCEPT !.selected = FALSE]] \o copies
        /\ AllInRange(entities')
        /\ nextId' = nextId + Len(sel)
        /\ Running
        /\ lastEvent' = [op |-> "copySelected", k |-> Len(sel)]
        /\ UNCHANGED <<blockDefs, view, toolVars, dragVars, mousePos, chatVars, imageLoads,
                       endAlias>>

copySelected ==
    LET sel == Selected(entities)
        ids == CloneIds(nextId, Len(sel))
        offset == ExactDiv(CopyOffset * view.zoom.d, view.zoom.n)
        copies == [i \in 1..Len(sel) |-> CopyEntity(sel[i], ids[i], offset)]
    IN  /\ nextId + Len(sel) <= limits.ids
        /\ entities' = [ix \in 1..Len(entities) |-> LET e == entities[ix] IN [e EXCEPT !.selected = FALSE]] \o copies
        /\ AllInRange(entities')
        /\ nextId' = nextId + Len(sel)
        /\ Running
        /\ lastEvent' = [op |-> "copySelected", k |-> Len(sel)]
        /\ UNCHANGED <<blockDefs, view, toolVars, dragVars, mousePos, chatVars, imageLoads,
                       endAlias>>

\* The x-coordinates mirrorSelected takes the extent over (lines 996-1000).
ExtentXs(e) ==
    (IF Has(e, "start") THEN {e.start.x} ELSE {})
    \cup (IF Has(e, "end") THEN {e.end.x} ELSE {})
    \cup (IF Has(e, "center") THEN {e.center.x} ELSE {})
    \cup (IF Has(e, "x") THEN {e.x} ELSE {})
    \cup (IF Has(e, "points") THEN {q.x : q \in Range(e.points)} ELSE {})
SetMin(S) == CHOOSE m \in S : \A n \in S : m <= n
SetMax(S) == CHOOSE m \in S : \A n \in S : m >= n

\* mirrorPoint (line 1006) with axisX = (minX + maxX) / 2:
\* axisX - (p.x - axisX) = minX + maxX - p.x.
mirrorPoint(q, minX, maxX) == Pt(minX + maxX - q.x, q.y)

\* One clone of mirrorSelected (lines 1009-1027).
MirrorEntity(e, id, minX, maxX) ==
    LET c == [e EXCEPT !.id = id, !.selected = TRUE]
    IN  IF c.type \in {"wall", "dimension", "leader"}
        THEN [c EXCEPT !.start = mirrorPoint(@, minX, maxX), !.end = mirrorPoint(@, minX, maxX)]
        ELSE IF c.type = "rect"
        THEN [c EXCEPT !.start = Pt(mirrorPoint(c.start, minX, maxX).x - c.width, c.start.y)]
        ELSE IF c.type \in {"circle", "centermark"}
        THEN [c EXCEPT !.center = mirrorPoint(@, minX, maxX)]
        ELSE IF c.type \in {"text", "image", "table"}
        THEN [c EXCEPT !.x = mirrorPoint(Pt(c.x, c.y), minX, maxX).x]
        ELSE IF c.type = "polyline"
        THEN [c EXCEPT !.points = [ix \in 1..Len(@) |-> LET q == @[ix] IN mirrorPoint(q, minX, maxX)]]
        ELSE c

\* A mirror that leaves the originals selected next to their clones.
mirrorSelectedKeepsSelection ==
    LET sel == Selected(entities)
        xs == UNION {ExtentXs(sel[i]) : i \in 1..Len(sel)}
        ids == CloneIds(nextId, Len(sel))
        clones == [i \in 1..Len(sel) |-> MirrorEntity(sel[i], ids[i], SetMin(xs), SetMax(xs))]
    IN  /\ IF Len(sel) = 0 \/ xs = {}
           THEN UNCHANGED <<entities, nextId>>
           ELSE /\ nextId + Len(sel) <= limits.ids
                /\ entities' = entities \o clones
                /\ AllInRange(entities')
                /\ nextId' = nextId + Len(sel)
        /\ Running
        /\ lastEvent' = [op |-> "mirrorSelected", k |-> Len(sel),
                       done |-> Len(sel) # 0 /\ xs # {},
                       orig |-> sel]
        /\ UNCHANGED <<blockDefs, view, toolVars, dragVars, mousePos, chatVars, imageLoads,
                       endAlias>>

mirrorSelected ==
    LET sel == Selected(entities)
        xs == UNION {ExtentXs(sel[i]) : i \in 1..Len(sel)}
        ids == CloneIds(nextId, Len(sel))
        clones == [i \in 1..Len(sel) |-> MirrorEntity(sel[i], ids[i], SetMin(xs), SetMax(xs))]
    IN  /\ IF Len(sel) = 0 \/ xs = {}
           THEN UNCHANGED <<entities, nextId>>
           ELSE /\ nextId + Len(sel) <= limits.ids
                /\ entities' = [ix \in 1..Len(entities) |-> LET e == entities[ix] IN [e EXCEPT !.selected = FALSE]] \o clones
                /\ AllInRange(entities')
                /\ nextId' = nextId + Len(sel)
        /\ Running
        /\ lastEvent' = [op |-> "mirrorSelected", k |-> Len(sel),
                       done |-> Len(sel) # 0 /\ xs # {},
                       orig |-> sel]
        /\ UNCHANGED <<blockDefs, view, toolVars, dragVars, mousePos, chatVars, imageLoads,
                       endAlias>>

\* ------------------------------------------------------------- rotateSelected
\* The points rotateSelected takes the bounding box over (lines 1043-1046): start and
\* end (start again when there is no end), center, (x, y) and the polyline points.
RotateBoxPoints(e) ==
    (IF Has(e, "start") THEN {e.start, IF Has(e, "end") THEN e.end ELSE e.start} ELSE {})
    \cup (IF Has(e, "center") THEN {e.center} ELSE {})
    \cup (IF Has(e, "x") THEN {Pt(e.x, e.y)} ELSE {})
    \cup (IF Has(e, "points") THEN Range(e.points) ELSE {})

\* rotatePoint (lines 1055-1062) with angle = PI / 2, cos taken as 0 and sin as 1:
\* (cx - (p.y - cy), cy + (p.x - cx)), with sx = 2 * cx and sy = 2 * cy.
rotatePoint(q, sx, sy) == Pt(ExactDiv(sx + sy, 2) - q.y, ExactDiv(sy - sx, 2) + q.x)

\* One entity of the rotated list (lines 1066-1085).  A rect's centre
\* start + (width / 2, height / 2) is rotated and its start set back by
\* (height / 2, width / 2) from there: the halves cancel.
RotateEntity(e, sx, sy) ==
    IF e.type \in {"wall", "dimension", "leader"}
    THEN [e EXCEPT !.start = rotatePoint(@, sx, sy), !.end = rotatePoint(@, sx, sy)]
    ELSE IF e.type = "rect"
    THEN [e EXCEPT !.start = Pt(ExactDiv(sx + sy, 2) - e.start.y - e.height,
                                ExactDiv(sy - sx, 2) + e.start.x),
                   !.width = e.height, !.height = e.width]
    ELSE IF e.type \in {"circle", "centermark"}
    THEN [e EXCEPT !.center = rotatePoint(@, sx, sy)]
    ELSE IF e.type \in {"text", "image", "table", "door"}
    THEN LET q == rotatePoint(Pt(e.x, e.y), sx, sy)
             c == [e EXCEPT !.x = q.x, !.y = q.y]
         IN  IF e.type = "door" THEN [c EXCEPT !.rotation = (@ + 90) % 360] ELSE c
    ELSE IF e.type = "polyline"
    THEN [e EXCEPT !.points = [ix \in 1..Len(@) |-> rotatePoint(@[ix], sx, sy)]]
    ELSE e

\* The ribbon's Rotate (lines 1032-1088).  lastEvent counts the Rotates made in a row
\* and keeps the selection the row started from.
rotateSelected ==
    LET sel == Selected(entities)
        pts == UNION {RotateBoxPoints(sel[i]) : i \in 1..Len(sel)}
        xs == {q.x : q \in pts}
        ys == {q.y : q \in pts}
        done == Len(sel) # 0 /\ pts # {}
        \* integer coordinates: only the rotations about a centre that keeps them integers
        exact == (SetMin(xs) + SetMax(xs) + SetMin(ys) + SetMax(ys)) % 2 = 0
        inRow == lastEvent.op = "rotateSelected" /\ lastEvent.run \in 1..3
    IN  /\ IF done
           THEN /\ exact
                /\ entities' = [ix \in 1..Len(entities) |-> LET e == entities[ix] IN
                                   IF ~e.selected THEN e
                                   ELSE RotateEntity(e, SetMin(xs) + SetMax(xs),
                                                     SetMin(ys) + SetMax(ys))]
                /\ AllInRange(entities')
           ELSE UNCHANGED entities
        /\ Running
        /\ lastEvent' = [op |-> "rotateSelected",
                         run |-> IF ~done THEN 0 ELSE IF inRow THEN lastEvent.run + 1 ELSE 1,
                         orig |-> IF done /\ inRow THEN lastEvent.orig ELSE sel]
        /\ UNCHANGED <<blockDefs, view, toolVars, dragVars, mousePos, chatVars, imageLoads,
                       endAlias, nextId>>

\* ------------------------------------------------------------------ the view
\* view.zoom is the fraction n / d, d > 0, in lowest terms.
RECURSIVE Gcd(_, _)
Gcd(a, b) == IF b = 0 THEN a ELSE Gcd(b, a % b)
Fraction(n, d) ==
    LET g == Gcd(Abs(n), Abs(d))
        sgn == IF d < 0 THEN -1 ELSE 1
    IN  [n |-> ExactDiv(sgn * n, g), d |-> ExactDiv(sgn * d, g)]
DefaultView == [x |-> 0, y |-> 0, zoom |-> Fraction(1, 1)]

\* scaleBy = 1.1 (line 632) as the fraction 11 / 10.
ScaleByNum == 11
ScaleByDen == 10
\* Largest numerator and denominator a wheel zoom may reach.
MaxZoomTerm == 11

\* handleWheel scaling the zoom and leaving the view offset where it is.
handleWheelKeepsOffset(c, deltaY) ==
    LET num == IF deltaY > 0 THEN ScaleByDen ELSE ScaleByNum
        den == IF deltaY > 0 THEN ScaleByNum ELSE ScaleByDen
        newZoom == Fraction(view.zoom.n * num, view.zoom.d * den)
    IN  /\ view.zoom.n # 0
        /\ Abs(newZoom.n) <= MaxZoomTerm /\ newZoom.d <= MaxZoomTerm
        /\ view' = [view EXCEPT !.zoom = newZoom]
        /\ Running
        /\ lastEvent' = [op |-> "handleWheel", at |-> c, deltaY |-> deltaY]
        /\ UNCHANGED <<entities, blockDefs, toolVars, dragVars, mousePos, chatVars,
                       imageLoads, endAlias, nextId>>

\* handleWheel (lines 631-641) with the cursor at c.  newZoom is oldZoom / 1.1 for
\* deltaY > 0 and oldZoom * 1.1 otherwise; wx * newZoom = (mx - view.x) * newZoom /
\* oldZoom.  Coordinates are integers: only the steps that leave view.x and view.y so.
handleWheel(c, deltaY) ==
    LET num == IF deltaY > 0 THEN ScaleByDen ELSE ScaleByNum
        den == IF deltaY > 0 THEN ScaleByNum ELSE ScaleByDen
        newZoom == Fraction(view.zoom.n * num, view.zoom.d * den)
    IN  /\ view.zoom.n # 0
        /\ ((c.x - view.x) * num) % den = 0 /\ ((c.y - view.y) * num) % den = 0
        /\ Abs(newZoom.n) <= MaxZoomTerm /\ newZoom.d <= MaxZoomTerm
        /\ view' = [x |-> c.x - ExactDiv((c.x - view.x) * num, den),
                    y |-> c.y - ExactDiv((c.y - view.y) * num, den),
                    zoom |-> newZoom]
        /\ Running
        /\ lastEvent' = [op |-> "handleWheel", at |-> c, deltaY |-> deltaY]
        /\ UNCHANGED <<entities, blockDefs, toolVars, dragVars, mousePos, chatVars,
                       imageLoads, endAlias, nextId>>

\* What canvasRef.current.getBoundingClientRect() reports (line 481).
ViewportSizes == {[width |-> 800, height |-> 600], [width |-> 40, height |-> 20]}
Padding == 50
ZoomCap == 5

\* The smaller of two fractions with positive denominators (Math.min, line 487).
MinFraction(f, g) == IF f.n * g.d <= g.n * f.d THEN f ELSE g

\* zoomExtents (lines 464-497).  The bounding box runs over the same points as
\* rotateSelected's (lines 475-478).  A zero extent on an axis makes that axis's scale
\* infinite: +Infinity loses to the cap in Math.min; the model leaves out the viewports
\* that make it -Infinity or NaN, and the boxes whose view offsets are not integers.
zoomExtents(size) ==
    LET pts == UNION {RotateBoxPoints(entities[i]) : i \in 1..Len(entities)}
        xs == {q.x : q \in pts}
        ys == {q.y : q \in pts}
        w == SetMax(xs) - SetMin(xs)
        h == SetMax(ys) - SetMin(ys)
        a == size.width - Padding * 2
        b == size.height - Padding * 2
        cap == Fraction(ZoomCap, 1)
        byX == IF w > 0 THEN MinFraction(Fraction(a, w), cap) ELSE cap
        zoom == IF h > 0 THEN MinFraction(Fraction(b, h), byX) ELSE byX
        x2 == size.width * zoom.d - (SetMin(xs) + SetMax(xs)) * zoom.n
        y2 == size.height * zoom.d - (SetMin(ys) + SetMax(ys)) * zoom.n
    IN  /\ IF entities = <<>>
           THEN view' = DefaultView
           ELSE IF pts = {}
           THEN UNCHANGED view
           ELSE /\ (w > 0 \/ a > 0) /\ (h > 0 \/ b > 0)
                /\ x2 % (2 * zoom.d) = 0 /\ y2 % (2 * zoom.d) = 0
                /\ view' = [x |-> ExactDiv(x2, 2 * zoom.d), y |-> ExactDiv(y2, 2 * zoom.d),
                            zoom |-> zoom]
        /\ Running
        /\ lastEvent' = [op |-> "zoomExtents", size |-> size, boxed |-> pts # {},
                         before |-> view]
        /\ UNCHANGED <<entities, blockDefs, toolVars, dragVars, mousePos, chatVars,
                       imageLoads, endAlias, nextId>>

\* resetView (line 499).
resetView ==
    /\ view' = DefaultView
    /\ Running
    /\ lastEvent' = Ev("resetView")
    /\ UNCHANGED <<entities, blockDefs, toolVars, dragVars, mousePos, chatVars,
                   imageLoads, endAlias, nextId>>

\* ------------------------------------------------------------ block authoring
\* Representative points createBlock takes the bounding box over (lines 404-407).
BasePoints(e) ==
    (IF Has(e, "start") THEN {e.start} ELSE {})
    \cup (IF Has(e, "center") THEN {e.center} ELSE {})
    \cup (IF Has(e, "points") THEN Range(e.points) ELSE {})
    \cup (IF Has(e, "x") THEN {Pt(e.x, e.y)} ELSE {})

\* One normalized entity of a definition (lines 414-430): no id, no selected flag,
\* positional fields shifted by -basePoint.
NormalizeEntity(e, b) ==
    LET c0 == Without(e, {"id", "selected"})
        c1 == IF Has(c0, "start") THEN [c0 EXCEPT !.start = Shift(@, -b.x, -b.y)] ELSE c0
        c2 == IF Has(c1, "end") THEN [c1 EXCEPT !.end = Shift(@, -b.x, -b.y)] ELSE c1
        c3 == IF Has(c2, "center") THEN [c2 EXCEPT !.center = Shift(@, -b.x, -b.y)] ELSE c2
        c4 == IF Has(c3, "points")
              THEN [c3 EXCEPT !.points = [ix \in 1..Len(@) |-> LET q == @[ix] IN Shift(q, -b.x, -b.y)]] ELSE c3
        c5 == IF Has(c4, "x") THEN [c4 EXCEPT !.x = @ - b.x, !.y = @ - b.y] ELSE c4
    IN  IF Has(c5, "p1")
        THEN [c5 EXCEPT !.p1 = Shift(@, -b.x, -b.y), !.p2 = Shift(@, -b.x, -b.y),
                        !.p3 = Shift(@, -b.x, -b.y)]
        ELSE c5

\* What prompt("Enter block name") returns: null (cancel), "" or a name.
BlockNames == {"B1", "B2"}
NameAnswers == {NoName, ""} \cup BlockNames
\* A lookup that finds no definition under any name.
HasBlockNever(name) == FALSE

\* blockDefs is a plain object: blockDefs[name] (lines 391, 456) is truthy for a name
\* with a definition and for every property name inherited from Object.prototype.
InheritedNames == {"constructor"}
HasBlock(name) == name \in InheritedNames \/ \E d \in blockDefs : d.name = name

\* renderEntity on an insert of `name` (lines 951-957) nests more than depth inserts
\* deep: it renders every entity of the definition, inserts included.
RECURSIVE Unfolds(_, _, _)
Unfolds(name, defs, depth) ==
    \E d \in defs :
        /\ d.name = name
        /\ \/ depth = 0
           \/ \E i \in 1..Len(d.entities) :
                  /\ d.entities[i].type = "insert"
                  /\ Unfolds(d.entities[i].blockName, defs, depth - 1)

\* Rendering the list never returns: some insert unfolds deeper than there are
\* definitions, that is through a definition that contains itself.
RenderOverflows(list, defs) ==
    \E i \in 1..Len(list) :
        list[i].type = "insert" /\ Unfolds(list[i].blockName, defs, Cardinality(defs))

createBlock(name) ==
    LET sel == Selected(entities)
        pts == UNION {BasePoints(sel[i]) : i \in 1..Len(sel)}
        xs == {q.x : q \in pts}
        ys == {q.y : q \in pts}
        basePoint == IF pts = {} THEN Pt(0, 0)
                     ELSE Pt(ExactDiv(SetMin(xs) + SetMax(xs), 2),
                             ExactDiv(SetMin(ys) + SetMax(ys), 2))
        normalized == [ix \in 1..Len(sel) |-> LET e == sel[ix] IN NormalizeEntity(e, basePoint)]
        ok == Len(sel) > 0 /\ name # NoName /\ name # "" /\ ~HasBlock(name)
    IN  /\ IF ok
           THEN /\ nextId < limits.ids
                /\ nextId' = generateId(nextId)
                /\ blockDefs' = blockDefs \cup
                       {[name |-> name, entities |-> normalized, basePoint |-> basePoint]}
                /\ entities' = Append(Unselected(entities),
                                      NewInsert(nextId', name, basePoint, TRUE))
                /\ endAlias' = endAlias \cap Ids(Unselected(entities))
           ELSE UNCHANGED <<entities, blockDefs, nextId, endAlias>>
        \* the render that follows recurses without end through a definition that
        \* holds an insert of itself (lines 951-957) and throws
        /\ mounted
        /\ mounted' = ~(ok /\ RenderOverflows(entities', blockDefs'))
        /\ UNCHANGED limits
        /\ lastEvent' = [op |-> "createBlock", ok |-> ok, name |-> name,
                       hadSelection |-> Len(sel) > 0]
        /\ UNCHANGED <<view, toolVars, dragVars, mousePos, chatVars, imageLoads>>

insertBlock(name) ==
    LET armed == blockDefs # {} /\ name # NoName /\ name # "" /\ HasBlock(name)
    IN  /\ IF armed
           THEN /\ activeBlockName' = name
                /\ activeTool' = "INSERT_BLOCK"
           ELSE UNCHANGED <<activeBlockName, activeTool>>
        \* The preview of the armed block (line 1425) reads .entities.map of what
        \* blockDefs[name] is: an inherited property has no entities and the render throws.
        /\ mounted
        /\ mounted' = ~(armed /\ ~\E d \in blockDefs : d.name = name)
        /\ UNCHANGED limits
        /\ lastEvent' = Ev("insertBlock")
        /\ UNCHANGED <<entities, blockDefs, view, dragVars, drawingStart, tempPoints, mousePos,
                       chatVars, imageLoads, endAlias, nextId>>

\* ---------------------------------------------------------- handleAttachImage
\* The file is read asynchronously; img.onload (lines 364-376) uses the view of the
\* render in which the file was picked.
ImageSizes == {[w |-> 100, h |-> 50]}

NewImage(id, v, size) ==
    [id |-> id, type |-> "image", href |-> "data",
     x |-> ExactDiv((100 - v.x) * v.zoom.d, v.zoom.n),
     y |-> ExactDiv((100 - v.y) * v.zoom.d, v.zoom.n),
     width |-> size.w, height |-> size.h, selected |-> FALSE]

handleAttachImage ==
    /\ Len(imageLoads) < 1
    /\ imageLoads' = Append(imageLoads, view)
    /\ Running
    /\ lastEvent' = Ev("handleAttachImage")
    /\ UNCHANGED <<entities, blockDefs, view, toolVars, dragVars, mousePos, chatVars,
                   endAlias, nextId>>

imageOnload(size) ==
    /\ imageLoads # <<>>
    /\ nextId < limits.ids
    /\ nextId' = generateId(nextId)
    /\ entities' = Append(entities, NewImage(nextId', Head(imageLoads), size))
    /\ imageLoads' = Tail(imageLoads)
    /\ Running
    /\ lastEvent' = Ev("imageOnload")
    /\ UNCHANGED <<blockDefs, view, toolVars, dragVars, mousePos, chatVars, endAlias>>

\* ------------------------------------------------------------------- callAI
\* Texts typed into the chat box; Trim is String.prototype.trim on them.
InputTexts == {"", " ", "draw"}
Trim(t) == IF t = " " THEN "" ELSE t

setUserInput(t) ==
    /\ userInput' = t
    /\ Running
    /\ lastEvent' = Ev("setUserInput")
    /\ UNCHANGED <<entities, blockDefs, view, toolVars, dragVars, mousePos, chatHistory,
                   isLoading, pendingFile, requests, imageLoads, endAlias, nextId>>

handleFileUpload ==
    /\ pendingFile' = TRUE
    /\ Running
    /\ lastEvent' = Ev("handleFileUpload")
    /\ UNCHANGED <<entities, blockDefs, view, toolVars, dragVars, mousePos, chatHistory,
                   isLoading, userInput, requests, imageLoads, endAlias, nextId>>

\* The drawing context a request carries (line 535): the list without selected / layer.
Context(list) == [ix \in 1..Len(list) |-> LET e == list[ix] IN Without(e, {"selected", "layer"})]

Submitted == Cardinality({i \in 1..Len(chatHistory) : chatHistory[i] = "user"})

\* The early return of callAI (line 518): nothing to send.
NothingToSend == Trim(userInput) = "" /\ ~pendingFile

\* callAI up to its await (lines 518-565): the request is issued.  A request in flight
\* is the context it sent; `tool` notes the active tool at that time (observation only).
callAI ==
    /\ IF NothingToSend
       THEN UNCHANGED chatVars
       ELSE /\ Submitted < limits.requests
            /\ chatHistory' = Append(chatHistory, "user")
            /\ pendingFile' = FALSE
            /\ userInput' = ""
            /\ isLoading' = TRUE
            /\ requests' = Append(requests, [context |-> Context(entities), tool |-> activeTool])
    /\ Running
    /\ lastEvent' = [op |-> "callAI", busy |-> isLoading, issued |-> ~NothingToSend]
    /\ UNCHANGED <<entities, blockDefs, view, toolVars, dragVars, mousePos, imageLoads,
                   endAlias, nextId>>

\* String.prototype.toLowerCase on the action and type names the pool uses.
ToLower(t) ==
    CASE t = "Create" -> "create"
      [] t = "Wall" -> "wall"
      [] OTHER -> t

\* An id no entity ever carries: generateId hands out 1..MaxIds.
UnknownId == MaxIds + 1
AiIds == {1, UnknownId}

\* Actions an interpreter response is built from.
ActionPool ==
    {[action |-> "clear"],
     [action |-> "create", type |-> "rect", start |-> Pt(0, 0), width |-> 10],
     [action |-> "create", type |-> "rect", start |-> Pt(0, 0), height |-> 10],
     [action |-> "Create", type |-> "Wall", id |-> 1, start |-> Pt(0, 0), end |-> Pt(60, 80)],
     [action |-> "create", type |-> "wall", start |-> Pt(0, 0)],
     [action |-> "create", type |-> "circle", center |-> Pt(60, 80), radius |-> 20],
     [action |-> "create", type |-> "circle", center |-> Pt(60, 80)],
     [action |-> "create", type |-> "insert", blockName |-> "B1", insertPoint |-> Pt(0, 0),
      scale |-> 1, rotation |-> 0]}
    \cup {[action |-> "update", id |-> i, start |-> Pt(60, 80)] : i \in AiIds}
    \cup {[action |-> "delete", id |-> i] : i \in AiIds}

\* responseData.actions: the arrays of at most MaxBatch actions of a pool.
BatchesOf(pool) == UNION {[1..n -> pool] : n \in 1..MaxBatch}

\* { ...e, ...act, action: undefined } (line 587)
Merge(e, act) ==
    [f \in (DOMAIN e \cup DOMAIN act) \ {"action"} |-> IF f \in DOMAIN act THEN act[f] ELSE e[f]]

\* { id: generateId(), ...act, type, action: undefined }: the action's own id wins.
CreatedEntityOwnId(act, id) ==
    [f \in (DOMAIN act \cup {"id", "type", "selected"}) \ {"action"} |->
        CASE f = "id" -> IF Has(act, "id") THEN act.id ELSE id
          [] f = "type" -> ToLower(act.type)
          [] f = "selected" -> IF Has(act, "selected") THEN act.selected ELSE FALSE
          [] OTHER -> act[f]]

\* { ...act, id: generateId(), type, action: undefined } (line 579)
CreatedEntity(act, id) ==
    [f \in (DOMAIN act \cup {"id", "type", "selected"}) \ {"action"} |->
        CASE f = "id" -> id
          [] f = "type" -> ToLower(act.type)
          [] f = "selected" -> IF Has(act, "selected") THEN act.selected ELSE FALSE
          [] OTHER -> act[f]]

\* The create validation (lines 580-582): TRUE when the new entity is pushed.
CreateAccepted(ne) ==
    /\ ~(ne.type = "wall" /\ (~Has(ne, "start") \/ ~Has(ne, "end")))
    /\ ~(ne.type = "rect" /\ (~Has(ne, "start") \/ ~Truthy(ne, "width")))
    /\ ~(ne.type = "circle" /\ (~Has(ne, "center") \/ ~Truthy(ne, "radius")))

\* currentEntities.filter(e => e.id !== act.id) (line 585)
DeleteById(list, act) == SelectSeq(list, LAMBDA e : ~(Has(act, "id") /\ e.id = act.id))

\* An update that inserts the action's fields as a new entity when no id matches.
UpdateOrInsert(list, act) ==
    IF \E i \in 1..Len(list) : Has(act, "id") /\ list[i].id = act.id
    THEN [ix \in 1..Len(list) |-> LET e == list[ix] IN IF e.id = act.id THEN Merge(e, act) ELSE e]
    ELSE Append(list, Merge([selected |-> FALSE], act))

\* currentEntities.map(e => e.id === act.id ? { ...e, ...act, action: undefined } : e)
UpdateById(list, act) ==
    [ix \in 1..Len(list) |-> LET e == list[ix] IN IF Has(act, "id") /\ e.id = act.id THEN Merge(e, act) ELSE e]

\* One turn of the forEach body (lines 574-588) on st = [list, nid]: the list so far
\* and the number of ids drawn so far.
ApplyAction(st, act) ==
    LET action == IF Has(act, "action") THEN ToLower(act.action) ELSE NoName
        id == generateId(st.nid)
    IN  CASE action = "clear" -> [st EXCEPT !.list = <<>>]
          [] action = "create" ->
                 [list |-> IF CreateAccepted(CreatedEntity(act, id))
                           THEN Append(st.list, CreatedEntity(act, id)) ELSE st.list,
                  nid |-> id]
          [] action = "delete" -> [st EXCEPT !.list = DeleteById(@, act)]
          [] action = "update" -> [st EXCEPT !.list = UpdateById(@, act)]
          [] OTHER -> st

\* The setEntities updater (lines 571-591): the batch folded in array order.
RECURSIVE ApplyBatch(_, _)
ApplyBatch(st, batch) ==
    IF batch = <<>> THEN st ELSE ApplyBatch(ApplyAction(st, Head(batch)), Tail(batch))

\* The list as the request sent it (the `entities` of the render that called callAI).
SentBase(req) == [ix \in 1..Len(req.context) |-> LET e == req.context[ix] IN With(e, "selected", FALSE)]

\* The list the updater starts from: the state at the time it runs (prevEntities).
BatchBase(req) == entities

\* What a request can end with: the await rejects, result.text is empty, JSON.parse
\* throws, the text parses to null, to an object without actions, to an object whose
\* actions is not an array (a number, say), or to a batch.
BatchOutcomes(pool) == {[kind |-> "batch", actions |-> b] : b \in BatchesOf(pool)}
OutcomesOf(pool) ==
    {[kind |-> k] : k \in {"networkError", "emptyText", "unparsable", "null", "message",
                           "actionsNotArray"}}
    \cup BatchOutcomes(pool)

\* Outcomes that reach the catch block (line 595).
Caught(o) == o.kind \in {"networkError", "unparsable", "null"}

\* responseData.actions.forEach throws inside the updater (line 573).  React runs the
\* updater outside callAI's try block, while rendering App; the error has no boundary
\* to stop at and the component is unmounted.
UpdaterThrows(o) == o.kind = "actionsNotArray"

\* ids of the entities whose `end` an update of the batch replaced
RECURSIVE EndReplaced(_)
EndReplaced(batch) ==
    IF batch = <<>> THEN {}
    ELSE (IF Has(Head(batch), "action") /\ ToLower(Head(batch).action) = "update"
             /\ Has(Head(batch), "end") /\ Has(Head(batch), "id")
          THEN {Head(batch).id} ELSE {}) \cup EndReplaced(Tail(batch))

\* What lastEvent keeps of a batch: which kinds of action it held.
IsCreate(act) == Has(act, "action") /\ ToLower(act.action) = "create"
RefersById(act) == Has(act, "action") /\ ToLower(act.action) \in {"update", "delete"}
BatchNotes(list, batch) ==
    [rejected |-> \E k \in 1..Len(batch) :
                      IsCreate(batch[k]) /\ ~CreateAccepted(CreatedEntity(batch[k], 0)),
     ownId    |-> \E k \in 1..Len(batch) :
                      IsCreate(batch[k]) /\ Has(batch[k], "id")
                      /\ CreateAccepted(CreatedEntity(batch[k], 0)),
     unknown  |-> \E k \in 1..Len(batch) :
                      /\ RefersById(batch[k])
                      /\ batch[k].id \notin
                             Ids(ApplyBatch([list |-> list, nid |-> 0], SubSeq(batch, 1, k - 1)).list),
     size     |-> Len(batch)]

\* callAI after its await (lines 567-600), for the i-th request in flight.
aiResponse(i, o) ==
    LET after == ApplyBatch([list |-> BatchBase(requests[i]), nid |-> nextId], o.actions)
    IN  /\ i \in 1..Len(requests)
        /\ mounted
        /\ IF o.kind = "batch"
           THEN /\ after.nid <= limits.ids
                /\ entities' = after.list
                /\ nextId' = after.nid
                /\ endAlias' = (endAlias \cap Ids(after.list)) \ EndReplaced(o.actions)
           ELSE UNCHANGED <<entities, nextId, endAlias>>
        /\ chatHistory' = IF o.kind = "emptyText" THEN chatHistory
                          ELSE Append(chatHistory, "model")
        /\ isLoading' = FALSE
        /\ mounted' = ~UpdaterThrows(o)
        /\ requests' = [j \in 1..(Len(requests) - 1) |->
                           IF j < i THEN requests[j] ELSE requests[j + 1]]
        /\ lastEvent' =
              [op |-> "aiResponse", kind |-> o.kind,
               stale |-> requests[i].context # Context(entities),
               toolChanged |-> requests[i].tool # activeTool,
               pending |-> Len(requests) - 1,
               changed |-> entities' # entities,
               folded |-> IF o.kind = "batch"
                          THEN ApplyBatch([list |-> entities, nid |-> nextId], o.actions).list
                          ELSE entities,
               notes |-> IF o.kind = "batch" THEN BatchNotes(entities, o.actions)
                         ELSE BatchNotes(entities, <<>>)]
        /\ UNCHANGED <<blockDefs, view, toolVars, dragVars, mousePos, userInput, pendingFile,
                       imageLoads, limits>>

\* ------------------------------------------------------------ specifications
\* Each specification runs the handlers of one part of the program from the state
\* after construction, with the pointer positions and prompt answers it enumerates
\* and the number of ids and of submissions it allows (limits).

\* The tool state machine: every ribbon tool, the pointer and keyboard handlers and
\* block authoring up to arming INSERT_BLOCK, with the pointer resting at one position.
PtsOne == {Pt(0, 0)}
ToolNext ==
    \/ \E t \in RibbonTools : SetTool(t)
    \/ \E p \in PtsOne, ctrl \in BOOLEAN : MouseDownSelect(p, ctrl)
    \/ \E p \in PtsOne : MouseDownMiddle(p)
    \/ \E p \in PtsOne : MouseDownPolyline(p)
    \/ \E p \in PtsOne : MouseDownArc(p)
    \/ \E p \in PtsOne : MouseDownCentermark(p)
    \/ \E p \in PtsOne, ans \in TableAnswers : MouseDownTable(p, ans)
    \/ \E p \in PtsOne, content \in TextAnswers : MouseDownText(p, content)
    \/ \E p \in PtsOne : MouseDownDoor(p)
    \/ \E p \in PtsOne : MouseDownAnchor(p)
    \/ \E p \in PtsOne, b \in Buttons : handleMouseMove(p, b)
    \/ \E ans \in LeaderAnswers : handleMouseUp(ans)
    \/ KeyDelete
    \/ KeyEnter
    \/ KeyEscape
    \/ handleContextMenu
    \/ \E name \in NameAnswers : createBlock(name)
    \/ \E name \in NameAnswers : insertBlock(name)

InitTool == Init /\ limits = [ids |-> MaxIds - 1, requests |-> 0]
SpecTool == InitTool /\ [][ToolNext]_vars

\* The chained tools (POLYLINE, ARC) with three pointer positions, so that the order
\* of the buffered points shows.
PtsChain == Pts \cup {Pt(30, 40)}
ChainNext ==
    \/ \E t \in {"SELECT", "POLYLINE", "ARC"} : SetTool(t)
    \/ \E p \in PtsChain : MouseDownPolyline(p)
    \/ \E p \in PtsChain : MouseDownArc(p)
    \/ KeyEnter
    \/ KeyEscape
    \/ handleContextMenu

InitChain == Init /\ limits = [ids |-> MaxIds, requests |-> 0]
SpecChain == InitChain /\ [][ChainNext]_vars

\* Selection: texts and tables placed at the pointer positions, then SELECT presses.
SelectNext ==
    \/ \E t \in {"SELECT", "TEXT", "TABLE"} : SetTool(t)
    \/ \E p \in Pts, content \in TextAnswers : MouseDownText(p, content)
    \/ \E p \in Pts, ans \in TableAnswers : MouseDownTable(p, ans)
    \/ \E p \in Pts, ctrl \in BOOLEAN : MouseDownSelect(p, ctrl)
    \/ \E ans \in LeaderAnswers : handleMouseUp(ans)
    \/ KeyDelete

InitSelect == Init /\ limits = [ids |-> MaxIds, requests |-> 0]
SpecSelect == InitSelect /\ [][SelectNext]_vars

\* The interpreter: submissions and responses in any order, while the user keeps
\* editing the drawing (places texts, selects, drags, deletes, changes tool).
EditPool == {act \in ActionPool :
                \/ act.action = "clear"
                \/ act.action = "create" /\ act.type = "circle" /\ Has(act, "radius")
                \/ act.action \in {"update", "delete"} /\ act.id # UnknownId}
AINext ==
    \/ setUserInput("draw")
    \/ callAI
    \/ \E i \in 1..MaxRequests, o \in OutcomesOf(EditPool) : aiResponse(i, o)
    \/ \E t \in {"SELECT", "TEXT"} : SetTool(t)
    \/ \E p \in PtsOne, content \in TextAnswers : MouseDownText(p, content)
    \/ \E p \in PtsOne : MouseDownSelect(p, FALSE)
    \/ \E p \in PtsOne, b \in Buttons : handleMouseMove(p, b)
    \/ handleMouseUp(NoName)
    \/ KeyDelete

InitAI == Init /\ limits = [ids |-> MaxIds - 1, requests |-> MaxRequests]
SpecAI == InitAI /\ [][AINext]_vars

\* The interpreter's promise settles: every request in flight is answered or fails.
Deliver == \E i \in 1..MaxRequests, o \in OutcomesOf(EditPool) : aiResponse(i, o)
LiveNext ==
    \/ setUserInput("draw")
    \/ callAI
    \/ \E i \in 1..MaxRequests, o \in OutcomesOf(EditPool) : aiResponse(i, o)
SpecAILive == InitAI /\ [][LiveNext]_vars /\ WF_vars(Deliver)

\* The batch applier alone: every batch of the pool, applied to the lists that
\* earlier batches built.
BatchNext ==
    \/ \E t \in InputTexts : setUserInput(t)
    \/ handleFileUpload
    \/ callAI
    \/ \E i \in 1..MaxRequests, o \in OutcomesOf(ActionPool) : aiResponse(i, o)

InitBatch == Init /\ limits = [ids |-> MaxIds, requests |-> MaxRequests]
SpecBatch == InitBatch /\ [][BatchNext]_vars

\* Every operation that puts an id into the list: tool commits, Copy, Mirror, block
\* authoring and insertion, image attach, and interpreter batches whose create and
\* update actions carry an id.
IdPool == {act \in ActionPool : Has(act, "id") /\ act.id # UnknownId}
IdsNext ==
    \/ \E t \in {"SELECT", "TEXT"} : SetTool(t)
    \/ \E p \in PtsOne : MouseDownText(p, "Text")
    \/ \E p \in PtsOne : MouseDownSelect(p, FALSE)
    \/ \E p \in PtsOne : MouseDownInsert(p)
    \/ handleMouseUp(NoName)
    \/ copySelected
    \/ mirrorSelected
    \/ createBlock("B1")
    \/ insertBlock("B1")
    \/ handleAttachImage
    \/ \E size \in ImageSizes : imageOnload(size)
    \/ setUserInput("draw")
    \/ callAI
    \/ \E i \in 1..MaxRequests, o \in BatchOutcomes(IdPool) : aiResponse(i, o)

InitIds == Init /\ limits = [ids |-> MaxIds, requests |-> MaxRequests - 1]
SpecIds == InitIds /\ [][IdsNext]_vars

\* Walls: anchors at the pointer positions, releases with the pointer a few units or
\* a long way off the anchor on either axis.
WallPts == Pts \cup {Pt(3, 3), Pt(200, 3), Pt(3, 200)}
WallNext ==
    \/ \E t \in {"WALL", "RECT"} : SetTool(t)
    \/ \E p \in Pts : MouseDownAnchor(p)
    \/ \E p \in WallPts : handleMouseMove(p, 0)
    \/ handleMouseUp(NoName)

\* The initial state of the specifications that only draw: no interpreter requests.
InitDraw == Init /\ limits = [ids |-> MaxIds, requests |-> 0]
InitDrawMore == Init /\ limits = [ids |-> MaxIds + 1, requests |-> 0]

SpecWall == InitDraw /\ [][WallNext]_vars

\* Block authoring: texts placed at the pointer positions, selected with and without
\* the modifier key, and turned into blocks; the insert a block leaves behind can be
\* part of the next block's selection.
BlockNext ==
    \/ \E t \in {"SELECT", "TEXT"} : SetTool(t)
    \/ \E p \in Pts : MouseDownText(p, "Text")
    \/ \E p \in Pts, ctrl \in BOOLEAN : MouseDownSelect(p, ctrl)
    \/ handleMouseUp(NoName)
    \/ \E name \in NameAnswers : createBlock(name)

SpecBlock == InitDrawMore /\ [][BlockNext]_vars

\* Mirror: texts and rects drawn at the pointer positions, selected with and without
\* the modifier key, and mirrored, possibly several times in a row.
MirrorNext ==
    \/ \E t \in {"SELECT", "TEXT", "RECT"} : SetTool(t)
    \/ \E p \in Pts : MouseDownText(p, "Text")
    \/ \E p \in PtsOne : MouseDownAnchor(p)
    \/ \E p \in Pts \ PtsOne : handleMouseMove(p, 0)
    \/ handleMouseUp(NoName)
    \/ \E p \in Pts, ctrl \in BOOLEAN : MouseDownSelect(p, ctrl)
    \/ mirrorSelected

SpecMirror == InitDraw /\ [][MirrorNext]_vars

\* Mirror of a selection that holds an arc next to a text.
ArcMirrorNext ==
    \/ \E t \in {"SELECT", "TEXT", "ARC"} : SetTool(t)
    \/ \E p \in PtsOne : MouseDownText(p, "Text")
    \/ \E p \in Pts : MouseDownArc(p)
    \/ handleMouseUp(NoName)
    \/ \E p \in Pts, ctrl \in BOOLEAN : MouseDownSelect(p, ctrl)
    \/ mirrorSelected

SpecArcMirror == InitDrawMore /\ [][ArcMirrorNext]_vars

\* Rotate: a text and rects drawn at the pointer positions, selected with and without
\* the modifier key, and rotated any number of times.
RotateNext ==
    \/ \E t \in {"SELECT", "TEXT", "RECT"} : SetTool(t)
    \/ \E p \in Pts \ PtsOne : MouseDownText(p, "Text")
    \/ \E p \in PtsOne : MouseDownAnchor(p)
    \/ \E p \in PtsChain \ Pts : handleMouseMove(p, 0)
    \/ handleMouseUp(NoName)
    \/ \E p \in Pts, ctrl \in BOOLEAN : MouseDownSelect(p, ctrl)
    \/ rotateSelected

SpecRotate == InitTool /\ [][RotateNext]_vars

\* Pointer positions whose world coordinates under the current view are integers.
OnGrid(p) ==
    /\ view.zoom.n # 0
    /\ ((p.x - view.x) * view.zoom.d) % Abs(view.zoom.n) = 0
    /\ ((p.y - view.y) * view.zoom.d) % Abs(view.zoom.n) = 0

\* The wheel and the pan: the wheel zooms about the pointer, the middle button pans
\* under SELECT, and the view is reset.
WheelDeltas == {-100, 100}
WheelNext ==
    \/ \E t \in {"SELECT", "TEXT"} : SetTool(t)
    \/ \E p \in Pts : MouseDownMiddle(p)
    \/ \E p \in Pts : OnGrid(p) /\ handleMouseMove(p, 4)
    \/ handleMouseUp(NoName)
    \/ \E c \in Pts, deltaY \in WheelDeltas : handleWheel(c, deltaY)
    \/ resetView

SpecWheel == InitTool /\ [][WheelNext]_vars

\* Fitting the view: texts and an arc are drawn, the wheel zooms about the pointer,
\* and the view is fitted to a wide or a narrow viewport or reset.
ViewNext ==
    \/ \E t \in {"SELECT", "TEXT", "ARC"} : SetTool(t)
    \/ \E p \in Pts : OnGrid(p) /\ MouseDownText(p, "Text")
    \/ \E p \in PtsOne : OnGrid(p) /\ MouseDownArc(p)
    \/ \E c \in Pts, deltaY \in WheelDeltas : handleWheel(c, deltaY)
    \/ \E size \in ViewportSizes : zoomExtents(size)
    \/ resetView

SpecView == InitTool /\ [][ViewNext]_vars

\* Placing by single presses: a text is drawn, selected and made a block; doors are
\* placed under DOOR and inserts under the armed INSERT_BLOCK tool.
PlaceNext ==
    \/ \E t \in {"SELECT", "TEXT", "DOOR"} : SetTool(t)
    \/ \E p \in PtsOne : MouseDownText(p, "Text")
    \/ \E p \in PtsOne : MouseDownSelect(p, FALSE)
    \/ handleMouseUp(NoName)
    \/ \E name \in NameAnswers : createBlock(name)
    \/ \E name \in NameAnswers : insertBlock(name)
    \/ \E p \in Pts : MouseDownInsert(p)
    \/ \E p \in Pts : MouseDownDoor(p)

SpecPlace == InitDrawMore /\ [][PlaceNext]_vars

\* Centre marks: a circle of radius 100 about (0,0) and arcs through the corners of a
\* right triangle are drawn and selected, and CENTERMARK is pressed at two positions.
MarkPts == {Pt(0, 0), Pt(60, 0), Pt(60, 80)}
MarkNext ==
    \/ \E t \in {"SELECT", "CIRCLE", "ARC", "CENTERMARK"} : SetTool(t)
    \/ \E p \in PtsOne : MouseDownAnchor(p)
    \/ \E p \in Pts \ PtsOne : handleMouseMove(p, 0)
    \/ handleMouseUp(NoName)
    \/ \E p \in MarkPts : MouseDownArc(p)
    \/ \E p \in Pts \ PtsOne : MouseDownSelect(p, FALSE)
    \/ \E p \in Pts : MouseDownCentermark(p)

SpecMark == InitDraw /\ [][MarkNext]_vars

\* Arming: a text is drawn, selected and made a block, and the two block prompts are
\* answered with a block name, with nothing, or with a name every object inherits.
PromptNames == NameAnswers \cup InheritedNames
ArmNext ==
    \/ \E t \in {"SELECT", "TEXT"} : SetTool(t)
    \/ \E p \in PtsOne : MouseDownText(p, "Text")
    \/ \E p \in PtsOne : MouseDownSelect(p, FALSE)
    \/ handleMouseUp(NoName)
    \/ \E name \in PromptNames : createBlock(name)
    \/ \E name \in PromptNames : insertBlock(name)
    \/ \E p \in PtsOne : MouseDownInsert(p)
    \/ KeyEscape
    \/ handleContextMenu

SpecArm == InitDraw /\ [][ArmNext]_vars

\* Striking segments: walls and dimensions are drawn from (0,0) to (100,0), or with
\* no pointer move in between, and SELECT presses fall beside, beyond and on them.
HitEnds == {Pt(0, 0), Pt(100, 0)}
HitPts == {Pt(50, 6), Pt(50, 20), Pt(9, 0), Pt(120, 0)}
HitNext ==
    \/ \E t \in {"SELECT", "WALL", "DIMENSION"} : SetTool(t)
    \/ \E p \in PtsOne : MouseDownAnchor(p)
    \/ \E p \in HitEnds : handleMouseMove(p, 0)
    \/ handleMouseUp(NoName)
    \/ \E p \in HitPts : MouseDownSelect(p, FALSE)

SpecHit == InitDraw /\ [][HitNext]_vars

\* Inserts from the interpreter: a batch creates an insert of B1, defined or not; the
\* insert is selected, copied, deleted and made a block, and the block is armed and
\* placed.
InsertPool == {act \in ActionPool : act.action = "create" /\ act.type = "insert"}
DangleNext ==
    \/ setUserInput("draw")
    \/ callAI
    \/ \E i \in 1..MaxRequests, o \in BatchOutcomes(InsertPool) : aiResponse(i, o)
    \/ \E p \in PtsOne, ctrl \in BOOLEAN : MouseDownSelect(p, ctrl)
    \/ handleMouseUp(NoName)
    \/ \E name \in BlockNames : createBlock(name)
    \/ \E name \in BlockNames : insertBlock(name)
    \/ \E p \in PtsOne : MouseDownInsert(p)
    \/ copySelected
    \/ mirrorSelected
    \/ deleteSelected

SpecDangle == InitIds /\ [][DangleNext]_vars

\* Press and release under the two-click tools: the anchor is (0,0) and the pointer
\* is released where it was pressed, 5 or 6 units away, or at (60,80) or (-60,-80).
ReleasePts == {Pt(0, 0), Pt(3, 4), Pt(6, 0), Pt(60, 80), Pt(-60, -80)}
ReleaseNext ==
    \/ \E t \in {"WALL", "RECT", "CIRCLE", "DIMENSION", "LEADER"} : SetTool(t)
    \/ \E p \in PtsOne : MouseDownAnchor(p)
    \/ \E p \in ReleasePts : handleMouseMove(p, 0)
    \/ \E ans \in LeaderAnswers : handleMouseUp(ans)

SpecRelease == InitDraw /\ [][ReleaseNext]_vars

\* Deleting around block authoring: a text is drawn, selected and made a block, the
\* block is armed and inserted, and the selection is deleted by button and by key.
DeleteNext ==
    \/ \E t \in {"SELECT", "TEXT"} : SetTool(t)
    \/ \E p \in PtsOne : MouseDownText(p, "Text")
    \/ \E p \in PtsOne, ctrl \in BOOLEAN : MouseDownSelect(p, ctrl)
    \/ handleMouseUp(NoName)
    \/ \E name \in NameAnswers : createBlock(name)
    \/ \E name \in NameAnswers : insertBlock(name)
    \/ \E p \in PtsOne : MouseDownInsert(p)
    \/ deleteSelected
    \/ KeyDelete

SpecDelete == InitDrawMore /\ [][DeleteNext]_vars

\* Copy under a changing zoom: texts and arcs are drawn and selected, the view is
\* fitted to a wide viewport, and the selection is copied.
WideViewport == {[width |-> 800, height |-> 600]}
CopyNext ==
    \/ \E t \in {"SELECT", "TEXT", "ARC"} : SetTool(t)
    \/ \E p \in PtsOne : OnGrid(p) /\ MouseDownText(p, "Text")
    \/ \E p \in PtsOne : OnGrid(p) /\ MouseDownArc(p)
    \/ \E p \in PtsOne, ctrl \in BOOLEAN : OnGrid(p) /\ MouseDownSelect(p, ctrl)
    \/ handleMouseUp(NoName)
    \/ copySelected
    \/ \E size \in WideViewport : zoomExtents(size)

SpecCopy == InitDraw /\ [][CopyNext]_vars

\* Dragging: texts are placed and selected by click or ctrl-click, the wheel zooms out
\* at the origin, and the left button is held while the pointer moves.  Moves are
\* enumerated while the pointer's travel is a whole number of world units and the
\* texts and the view stay within DragReach of the origin.
DragOnGrid(p) ==
    IF dragStart = Null THEN TRUE
    ELSE /\ ((p.x - dragStart.x) * view.zoom.d) % Abs(view.zoom.n) = 0
         /\ ((p.y - dragStart.y) * view.zoom.d) % Abs(view.zoom.n) = 0
DragReach == 100
DragWithin ==
    /\ Abs(view'.x) <= DragReach /\ Abs(view'.y) <= DragReach
    /\ \A i \in 1..Len(entities') :
           Abs(entities'[i].x) <= DragReach /\ Abs(entities'[i].y) <= DragReach
DragNext ==
    \/ \E t \in {"SELECT", "TEXT"} : SetTool(t)
    \/ \E p \in PtsOne : OnGrid(p) /\ MouseDownText(p, "Text")
    \/ \E p \in Pts, ctrl \in BOOLEAN : OnGrid(p) /\ MouseDownSelect(p, ctrl)
    \/ \E p \in Pts : OnGrid(p) /\ DragOnGrid(p) /\ handleMouseMove(p, 1) /\ DragWithin
    \/ handleMouseUp(NoName)
    \/ \E c \in PtsOne : handleWheel(c, 100)

SpecDrag == InitTool /\ [][DragNext]_vars

\* ------------------------------------------------------------------ properties
Selection(list) == {i \in 1..Len(list) : list[i].selected}

\* C1: from every reachable tool state the cancel keystroke (Escape) is accepted and
\* leads to activeTool = SELECT with tempPoints empty, drawingStart null and
\* activeBlockName null, and it leaves the entity list unchanged.
C1_EscapeResets ==
    /\ [](ENABLED KeyEscape)
    /\ [][KeyEscape => /\ activeTool' = "SELECT"
                       /\ tempPoints' = <<>>
                       /\ drawingStart' = Null
                       /\ activeBlockName' = NoName
                       /\ entities' = entities]_vars

\* Escape pressed with a block armed, points buffered and an anchor set, over a
\* non-empty drawing.
C1_EscapeFromFullState ==
    /\ lastEvent.op = "KeyEscape"
    /\ lastEvent.tool = "INSERT_BLOCK" /\ lastEvent.temp > 0 /\ lastEvent.start
    /\ lastEvent.block
    /\ activeTool = "SELECT" /\ tempPoints = <<>> /\ drawingStart = Null
    /\ activeBlockName = NoName
    /\ entities # <<>>

\* C2: with the ARC tool active, a press with fewer than two buffered points creates
\* no entity and is appended to tempPoints (the first two presses); a press with two
\* buffered points (the third) creates exactly one arc whose p1, p2, p3 are the two
\* buffered points and the pressed point, in that order, and leaves tempPoints empty.
C2_ArcThreePresses ==
    [][\A p \in PtsChain :
          MouseDownArc(p) =>
              LET w == screenToWorld(p, view)
              IN  /\ Len(tempPoints) < 2 =>
                         entities' = entities /\ tempPoints' = Append(tempPoints, w)
                  /\ Len(tempPoints) = 2 =>
                         /\ tempPoints' = <<>>
                         /\ Len(entities') = Len(entities) + 1
                         /\ SubSeq(entities', 1, Len(entities)) = entities
                         /\ entities'[Len(entities')].type = "arc"
                         /\ entities'[Len(entities')].p1 = tempPoints[1]
                         /\ entities'[Len(entities')].p2 = tempPoints[2]
                         /\ entities'[Len(entities')].p3 = w]_vars

\* The second ARC press has committed an arc whose p2 and p3 are both that press.
C2_SecondPressCommits ==
    /\ lastEvent.op = "MouseDownArc" /\ lastEvent.temp = 1
    /\ tempPoints = <<>>
    /\ entities # <<>>
    /\ entities[Len(entities)].type = "arc"
    /\ entities[Len(entities)].p1 # entities[Len(entities)].p2
    /\ entities[Len(entities)].p2 = entities[Len(entities)].p3

\* C3: with the POLYLINE tool active each press appends the pressed point to
\* tempPoints and creates no entity; Enter or a context click with at least two
\* buffered points appends exactly one polyline with closed = false whose points are
\* the buffered points in press order, and empties tempPoints; no polyline in the
\* list has fewer than two points.
C3_PolylineChain ==
    /\ [](\A i \in 1..Len(entities) :
             entities[i].type = "polyline" => Len(entities[i].points) >= 2)
    /\ [][\A p \in PtsChain :
             MouseDownPolyline(p) =>
                 /\ tempPoints' = Append(tempPoints, screenToWorld(p, view))
                 /\ entities' = entities]_vars
    /\ [][((KeyEnter \/ handleContextMenu) /\ activeTool = "POLYLINE" /\ Len(tempPoints) >= 2) =>
             /\ tempPoints' = <<>>
             /\ Len(entities') = Len(entities) + 1
             /\ SubSeq(entities', 1, Len(entities)) = entities
             /\ entities'[Len(entities')].type = "polyline"
             /\ entities'[Len(entities')].closed = FALSE
             /\ entities'[Len(entities')].points = tempPoints]_vars

\* A commit has just turned two different buffered points into a polyline.
C3_CommittedChain ==
    /\ lastEvent.op \in {"KeyEnter", "ContextMenu"}
    /\ lastEvent.tool = "POLYLINE" /\ lastEvent.temp = 2
    /\ tempPoints = <<>>
    /\ entities # <<>>
    /\ entities[Len(entities)].type = "polyline"
    /\ Len(entities[Len(entities)].points) = 2
    /\ entities[Len(entities)].points[1] # entities[Len(entities)].points[2]

\* C4: at most one interpreter request is in flight at any time (a submit while
\* isLoading is true issues no second request).
C4_OneRequestInFlight == Len(requests) <= 1

\* A submit made while isLoading was true has issued a second request.
C4_SecondRequestIssued ==
    /\ lastEvent.op = "callAI" /\ lastEvent.busy /\ lastEvent.issued
    /\ Len(requests) = 2

\* The batch folded left to right, by position.
RECURSIVE InOrder(_, _, _)
InOrder(st, batch, k) ==
    IF k = 0 THEN st ELSE ApplyAction(InOrder(st, batch, k - 1), batch[k])

\* C5: when an interpreter response arrives, the new entity list is the fold, in
\* array order, of the batch's actions over the entity list as it stands at arrival
\* (lastEvent.folded), whatever was sent and whatever the active tool is.
C5_FoldOverArrivalList ==
    /\ (lastEvent.op = "aiResponse" /\ lastEvent.kind = "batch") => entities = lastEvent.folded
    /\ \A b \in BatchesOf(EditPool) :
           ApplyBatch([list |-> entities, nid |-> nextId], b)
               = InOrder([list |-> entities, nid |-> nextId], b, Len(b))

\* A batch has been applied to a list that differs from the one its request sent,
\* under another tool than the one active at the submit; an entity placed during the
\* wait is still in the list.
C5_AppliedToEditedList ==
    /\ lastEvent.op = "aiResponse" /\ lastEvent.kind = "batch"
    /\ lastEvent.stale /\ lastEvent.toolChanged /\ lastEvent.changed
    /\ \E i \in 1..Len(entities) : entities[i].type = "text"
    /\ \E i \in 1..Len(entities) : entities[i].type = "circle"

\* The geometry fields the entity model makes mandatory for the validated types.
MandatoryFields(type) ==
    CASE type = "wall" -> {"start", "end"}
      [] type = "rect" -> {"start", "width", "height"}
      [] type = "circle" -> {"center", "radius"}
      [] OTHER -> {}
LacksMandatory(act) ==
    IsCreate(act) /\ ~(MandatoryFields(ToLower(act.type)) \subseteq DOMAIN act)
NoIds(list) == [ix \in 1..Len(list) |-> LET e == list[ix] IN Without(e, {"id"})]

\* C6: a create action of type wall, rect or circle that lacks a mandatory geometry
\* field adds no entity, alone (so a lone create of a rect with start and width but no
\* height leaves the list unchanged) and next to another action, which is applied as
\* if the create were not there.
C6_MalformedCreateSkipped ==
    \A act \in ActionPool :
        LacksMandatory(act) =>
            LET st == [list |-> entities, nid |-> nextId]
            IN  /\ ApplyBatch(st, <<act>>).list = entities
                /\ \A x \in ActionPool :
                       /\ NoIds(ApplyBatch(st, <<act, x>>).list) = NoIds(ApplyBatch(st, <<x>>).list)
                       /\ LacksMandatory(x)
                          \/ NoIds(ApplyBatch(st, <<x, act>>).list) = NoIds(ApplyBatch(st, <<x>>).list)

\* A response has put a rect without height into the list.
C6_RectWithoutHeightAdded ==
    /\ lastEvent.op = "aiResponse" /\ lastEvent.changed
    /\ \E i \in 1..Len(entities) :
           entities[i].type = "rect" /\ ~Has(entities[i], "height")

\* Requests that fail: the call rejects, the text does not parse, or it parses to
\* something that is not a response object with an array of actions.
FailedOutcomes == {o \in OutcomesOf({}) : Caught(o) \/ UpdaterThrows(o)}

\* C7: when an interpreter request fails, the entity list is left exactly as it was
\* (the drawing stays on screen) and exactly one model-role message is appended to
\* the chat history.
C7_FailureLeavesList ==
    [][\A i \in 1..MaxRequests, o \in FailedOutcomes :
          aiResponse(i, o) =>
              /\ mounted'
              /\ entities' = entities
              /\ chatHistory' = Append(chatHistory, "model")]_vars

\* A response whose actions is not an array has unmounted the component while the
\* drawing held entities.
C7_Unmounted == ~mounted /\ entities # <<>>

C9_UnknownIdIgnored ==
    LET st == [list |-> entities, nid |-> nextId]
        Unmatched(act, list) == RefersById(act) /\ act.id \notin Ids(list)
    IN  \A act \in ActionPool :
            /\ Unmatched(act, entities) =>
                   /\ ApplyBatch(st, <<act>>) = st
                   /\ \A x \in ActionPool : ApplyBatch(st, <<act, x>>) = ApplyBatch(st, <<x>>)
            /\ \A x \in ActionPool :
                   Unmatched(act, ApplyBatch(st, <<x>>).list) =>
                       ApplyBatch(st, <<x, act>>) = ApplyBatch(st, <<x>>)

\* A batch of two actions, one of them naming an id that matched nothing, has
\* changed a list that is not empty afterwards.
C9_RestOfBatchApplied ==
    /\ lastEvent.op = "aiResponse" /\ lastEvent.kind = "batch"
    /\ lastEvent.notes.unknown /\ lastEvent.notes.size = 2
    /\ lastEvent.changed
    /\ entities # <<>>

\* C10: a SELECT press without the modifier key selects exactly the first entity in
\* list order that the hit-test strikes at the pointer, and nothing when nothing is
\* struck; afterwards at most one entity is selected.
C10_SelectFirstHit ==
    [][\A p \in Pts :
          MouseDownSelect(p, FALSE) =>
              LET w == screenToWorld(p, view)
                  First(i) == /\ HitTest(entities[i], w)
                              /\ \A j \in 1..(i - 1) : ~HitTest(entities[j], w)
              IN  /\ Len(entities') = Len(entities)
                  /\ \A i \in 1..Len(entities) :
                         /\ entities'[i].id = entities[i].id
                         /\ entities'[i].selected = First(i)
                  /\ Cardinality(Selection(entities')) <= 1]_vars

\* A press has struck two entities and selected the first of them only.
C10_FirstOfTwoSelected ==
    /\ lastEvent.op = "MouseDownSelect" /\ ~lastEvent.ctrl /\ lastEvent.hit = 1
    /\ Len(entities) = 2
    /\ HitTest(entities[2], lastEvent.at)
    /\ Selection(entities) = {1}

\* C11: a SELECT press with the modifier key held toggles the selected flag of the
\* first struck entity only and leaves every other entity as it was; when nothing is
\* struck the list, and so the selection, is unchanged.
C11_CtrlTogglesFirstHit ==
    [][\A p \in Pts :
          MouseDownSelect(p, TRUE) =>
              LET w == screenToWorld(p, view)
                  First(i) == /\ HitTest(entities[i], w)
                              /\ \A j \in 1..(i - 1) : ~HitTest(entities[j], w)
              IN  /\ Len(entities') = Len(entities)
                  /\ \A i \in 1..Len(entities) :
                         entities'[i] = IF First(i)
                                        THEN [entities[i] EXCEPT !.selected = ~@]
                                        ELSE entities[i]]_vars

\* A modifier press has struck two selected entities and deselected the first only.
C11_FirstOfTwoToggledOff ==
    /\ lastEvent.op = "MouseDownSelect" /\ lastEvent.ctrl /\ lastEvent.hit = 1
    /\ Len(entities) = 2
    /\ HitTest(entities[2], lastEvent.at)
    /\ Selection(entities) = {2}

\* C12: with the WALL tool, a press at (0,0) followed by a release with the pointer
\* at (3,3) does not snap and commits a diagonal wall from (0,0) to (3,3).
C12_ShortDiagonalWall ==
    [][(handleMouseUp(NoName) /\ activeTool = "WALL"
          /\ drawingStart = Pt(0, 0) /\ mousePos = Pt(3, 3)) =>
          /\ Len(entities') = Len(entities) + 1
          /\ entities'[Len(entities')].type = "wall"
          /\ entities'[Len(entities')].start = Pt(0, 0)
          /\ entities'[Len(entities')].end = Pt(3, 3)]_vars

\* The release from (0,0) with the pointer at (3,3) has happened and no wall exists.
C12_NothingCommitted ==
    /\ lastEvent.op = "MouseUp" /\ lastEvent.tool = "WALL"
    /\ lastEvent.from = Pt(0, 0) /\ lastEvent.at = Pt(3, 3)
    /\ entities = <<>>
    /\ mousePos = Pt(0, 0)

\* C13: a WALL release whose pointer is less than 10 off the anchor on one axis and at
\* least 10 off on the other commits a wall whose end keeps the anchor's coordinate on
\* the near axis and the pointer's on the far axis: horizontal for a small y delta,
\* vertical for a small x delta.
C13_OrthogonalSnap ==
    [][(handleMouseUp(NoName) /\ activeTool = "WALL" /\ drawingStart # Null) =>
          LET s == drawingStart
              nearX == Abs(mousePos.x - s.x) < SnapThreshold
              nearY == Abs(mousePos.y - s.y) < SnapThreshold
              made == entities'[Len(entities')]
          IN  /\ (nearY /\ ~nearX) =>
                    /\ Len(entities') = Len(entities) + 1
                    /\ made.type = "wall" /\ made.start = s
                    /\ made.end = Pt(mousePos.x, s.y)
              /\ (nearX /\ ~nearY) =>
                    /\ Len(entities') = Len(entities) + 1
                    /\ made.type = "wall" /\ made.start = s
                    /\ made.end = Pt(s.x, mousePos.y)]_vars

\* The release from (0,0) with the pointer at (200,3) has committed a wall ending at
\* (200,0).
C13_SnappedHorizontal ==
    /\ lastEvent.op = "MouseUp" /\ lastEvent.tool = "WALL"
    /\ lastEvent.from = Pt(0, 0) /\ lastEvent.at = Pt(200, 3)
    /\ entities # <<>>
    /\ entities[Len(entities)].end = Pt(200, 0)

\* The centre of the bounding box of a set of points, the origin when there is none.
BoxCentre(pts) ==
    IF pts = {} THEN Pt(0, 0)
    ELSE Pt(ExactDiv(SetMin({q.x : q \in pts}) + SetMax({q.x : q \in pts}), 2),
            ExactDiv(SetMin({q.y : q \in pts}) + SetMax({q.y : q \in pts}), 2))

\* An entity as a definition should hold it: no id, no selected flag, every positional
\* field that a drag moves shifted by -b.
StoredShifted(e, b) == Without(MoveEntity(e, -b.x, -b.y), {"id", "selected"})

\* createBlock has gone past its guards.
CreateBlockSucceeds(name) ==
    /\ createBlock(name)
    /\ Selected(entities) # <<>> /\ name \notin {NoName, ""} /\ ~HasBlock(name)

\* C14: a successful createBlock(name) stores under name the selected entities without
\* id and selected, shifted by -basePoint, basePoint being the centre of the bounding
\* box of the selection's representative points (the origin if there is none); the
\* selected entities leave the live list, the unselected ones stay in order, and one
\* new selected insert of name at basePoint is appended.
C14_CreateBlockReplacesSelection ==
    [][\A name \in NameAnswers :
          CreateBlockSucceeds(name) =>
              LET sel == Selected(entities)
                  b == BoxCentre(UNION {BasePoints(sel[i]) : i \in 1..Len(sel)})
                  ins == entities'[Len(entities')]
              IN  /\ blockDefs' = blockDefs \cup
                        {[name |-> name, basePoint |-> b,
                          entities |-> [i \in 1..Len(sel) |-> StoredShifted(sel[i], b)]]}
                  /\ Len(entities') = Len(Unselected(entities)) + 1
                  /\ SubSeq(entities', 1, Len(entities') - 1) = Unselected(entities)
                  /\ ins.type = "insert" /\ ins.blockName = name /\ ins.insertPoint = b
                  /\ ins.selected /\ ins.id \notin Ids(entities)]_vars

\* A block has been made of a text and an insert: the live list is the new insert alone.
C14_NestedBlockCreated ==
    /\ lastEvent.op = "createBlock" /\ lastEvent.ok
    /\ Len(entities) = 1 /\ entities[1].type = "insert" /\ entities[1].selected
    /\ entities[1].insertPoint = Pt(60, 80)
    /\ \E d \in blockDefs :
          /\ d.name = entities[1].blockName
          /\ {d.entities[i].type : i \in 1..Len(d.entities)} = {"insert", "text"}

\* C15: createBlock with an empty selection, with an empty or cancelled name, or with
\* a name already in blockDefs changes nothing: entity list and selection, blockDefs,
\* activeTool and every buffer stay as they were.
C15_CreateBlockGuards ==
    [][\A name \in NameAnswers :
          (createBlock(name)
             /\ (Selected(entities) = <<>> \/ name \in {NoName, ""}
                   \/ \E d \in blockDefs : d.name = name)) =>
              UNCHANGED <<entities, blockDefs, activeBlockName, view, toolVars, dragVars,
                          mousePos, chatVars, imageLoads, endAlias, nextId>>]_vars

\* createBlock was refused for a non-empty selection because the name was taken.
C15_DuplicateNameRefused ==
    /\ lastEvent.op = "createBlock" /\ ~lastEvent.ok /\ lastEvent.hadSelection
    /\ \E d \in blockDefs : d.name = lastEvent.name
    /\ Selection(entities) # {}

\* C16: createBlock shifts by -basePoint exactly the positional fields a drag moves,
\* for every entity variant: each stored entity is the selected one moved by
\* -basePoint, and a selected insert is stored with insertPoint - basePoint.
C16_NormalizeShiftsMoveFields ==
    [][\A name \in NameAnswers :
          CreateBlockSucceeds(name) =>
              \E d \in blockDefs' :
                  /\ d.name = name
                  /\ Len(d.entities) = Len(Selected(entities))
                  /\ \A i \in 1..Len(d.entities) :
                         d.entities[i] = StoredShifted(Selected(entities)[i], d.basePoint)]_vars

\* A definition with base point (60,80) holds an insert still at the (0,0) it had in the
\* drawing.
C16_InsertStoredUnshifted ==
    /\ lastEvent.op = "createBlock" /\ lastEvent.ok
    /\ \E d \in blockDefs :
          /\ d.name = lastEvent.name
          /\ d.basePoint = Pt(60, 80)
          /\ \E i \in 1..Len(d.entities) :
                 d.entities[i].type = "insert" /\ d.entities[i].insertPoint = Pt(0, 0)

\* The positional fields of an entity.
PositionalFields == {"start", "end", "center", "points", "x", "y", "p1", "p2", "p3", "insertPoint"}
Positional(e) == [f \in DOMAIN e \cap PositionalFields |-> e[f]]

\* C17: Mirror applied to a selection and then again to the clones it left selected
\* yields entities with the x-coordinates (and y-coordinates) of the originals, for
\* selections of walls, dimensions, rects, circles, texts and polylines.
C17_MirrorTwiceRestores ==
    [][(mirrorSelected /\ lastEvent.op = "mirrorSelected" /\ lastEvent.done
          /\ \A i \in 1..Len(lastEvent.orig) :
                 lastEvent.orig[i].type \in
                     {"wall", "dimension", "rect", "circle", "text", "polyline"}) =>
          /\ Len(entities') = Len(entities) + lastEvent.k
          /\ \A j \in 1..lastEvent.k :
                 Positional(entities'[Len(entities) + j]) = Positional(lastEvent.orig[j])]_vars

\* A rect at x = 0 of width 60 was mirrored twice and its second clone starts at -120.
C17_RectDrifts ==
    /\ lastEvent.op = "mirrorSelected" /\ lastEvent.done
    /\ Len(entities) = 3
    /\ \A i \in 1..3 : entities[i].type = "rect" /\ entities[i].width = 60
    /\ entities[1].start.x = 0 /\ entities[2].start.x = -60 /\ entities[3].start.x = -120

\* A point reflected about the axis at half of twice.
Reflected(q, twice) == Pt(twice - q.x, q.y)

\* An entity with every x-coordinate it holds reflected; a rect's start.x is the
\* reflected right edge.
ReflectedEntity(e, twice) ==
    [f \in DOMAIN e \cap PositionalFields |->
        IF f = "start" /\ e.type = "rect" THEN Pt(twice - e.start.x - e.width, e.start.y)
        ELSE IF f = "points" THEN [i \in 1..Len(e.points) |-> Reflected(e.points[i], twice)]
        ELSE IF f = "x" THEN twice - e.x
        ELSE IF f = "y" THEN e.y
        ELSE Reflected(e[f], twice)]

\* C18: Mirror reflects the x-coordinates of every selected entity about the computed
\* axis, y unchanged, for every variant: an arc's p1, p2, p3, a door's x and an
\* insert's insertPoint included; a rect's new start.x is the mirrored right edge.
C18_MirrorReflectsEveryVariant ==
    [][mirrorSelected =>
          LET sel == Selected(entities)
              xs == UNION {ExtentXs(sel[i]) : i \in 1..Len(sel)}
          IN  (sel # <<>> /\ xs # {}) =>
                  /\ Len(entities') = Len(entities) + Len(sel)
                  /\ \A j \in 1..Len(sel) :
                         Positional(entities'[Len(entities) + j]) =
                             ReflectedEntity(sel[j], SetMin(xs) + SetMax(xs))]_vars

\* A text at x = 0 and an arc reaching x = 60 were mirrored about x = 0 and the arc's
\* clone has the arc's own points.
C18_ArcCloneUnmirrored ==
    /\ lastEvent.op = "mirrorSelected" /\ lastEvent.done /\ lastEvent.k = 2
    /\ Len(entities) = 4
    /\ \E i \in 1..2 :
          /\ entities[i].type = "arc" /\ entities[i + 2].type = "arc"
          /\ entities[i].p2.x = 60
          /\ Positional(entities[i + 2]) = Positional(entities[i])
          /\ entities[3 - i].type = "text" /\ entities[3 - i].x = 0

\* C19: Mirror on a selection with a finite horizontal extent keeps every original in
\* the list with its geometry and selected = false, appends one clone with a fresh id
\* per formerly selected entity, and leaves exactly the clones selected; with an empty
\* selection or no finite extent the list is unchanged.
C19_MirrorKeepsOriginals ==
    [][mirrorSelected =>
          LET sel == Selected(entities)
              xs == UNION {ExtentXs(sel[i]) : i \in 1..Len(sel)}
              n == Len(entities)
          IN  IF sel = <<>> \/ xs = {}
              THEN entities' = entities
              ELSE /\ Len(entities') = n + Len(sel)
                   /\ \A i \in 1..n : entities'[i] = [entities[i] EXCEPT !.selected = FALSE]
                   /\ \A j \in 1..Len(sel) :
                          /\ entities'[n + j].id \notin Ids(entities)
                          /\ entities'[n + j].type = sel[j].type
                          /\ \A k \in 1..Len(sel) :
                                 entities'[n + j].id = entities'[n + k].id => j = k
                   /\ Selection(entities') = (n + 1)..(n + Len(sel))]_vars

\* Two entities were mirrored: the list holds the two originals, deselected, and their
\* two clones, selected.
C19_TwoClonesSelected ==
    /\ lastEvent.op = "mirrorSelected" /\ lastEvent.done /\ lastEvent.k = 2
    /\ Len(entities) = 4
    /\ Selection(entities) = {3, 4}
    /\ {entities[i].id : i \in 1..4} = 1..4

\* C20: Rotate applied four times in a row to an unchanged selection returns every
\* positional field of every selected entity, a rect's start, width and height
\* included, to its original value, and a door's rotation to its original value.
C20_RotateFourTimesRestores ==
    [][(rotateSelected /\ lastEvent.op = "rotateSelected" /\ lastEvent.run = 3) =>
          Selected(entities') = lastEvent.orig]_vars

\* A lone rect that started at (0,0), 30 wide and 40 high, has been rotated four times
\* in a row and now starts at (-140,0).
C20_RectAfterFourRotations ==
    /\ lastEvent.op = "rotateSelected" /\ lastEvent.run = 4
    /\ Len(lastEvent.orig) = 1
    /\ lastEvent.orig[1].type = "rect" /\ lastEvent.orig[1].start = Pt(0, 0)
    /\ Selected(entities) = <<[lastEvent.orig[1] EXCEPT !.start = Pt(-140, 0)]>>

\* ------------------------------------------------------------------ Copy
\* c is e with every positional field offset by off on both axes and nothing else but
\* id and selected changed.
OffsetBy(e, c, off) ==
    /\ DOMAIN c = DOMAIN e
    /\ \A f \in DOMAIN e \ {"id", "selected"} :
           IF f \in {"x", "y"} THEN c[f] = e[f] + off
           ELSE IF f = "points"
                THEN /\ Len(c[f]) = Len(e[f])
                     /\ \A i \in 1..Len(e[f]) : c[f][i] = Shift(e[f][i], off, off)
           ELSE IF f \in PositionalFields THEN c[f] = Shift(e[f], off, off)
           ELSE c[f] = e[f]

C22_CopyOffsetFixedInWorld ==
    [][copySelected =>
          \A j \in 1..Len(Selected(entities)) :
              OffsetBy(Selected(entities)[j], entities'[Len(entities) + j], CopyOffset)]_vars

\* C22 as the code has it: the offset is CopyOffset screen units, that is CopyOffset
\* divided by the view zoom in world units.
C22_CopyOffsetFixedOnScreen ==
    [][copySelected =>
          \A j \in 1..Len(Selected(entities)) :
              \E off \in -MaxCoord..MaxCoord :
                  /\ off * view.zoom.n = CopyOffset * view.zoom.d
                  /\ OffsetBy(Selected(entities)[j], entities'[Len(entities) + j], off)]_vars

\* Under zoom 5 a text was copied and its clone lies 4 world units from it.
C22_CopyUnderZoomFive ==
    /\ lastEvent.op = "copySelected" /\ lastEvent.k = 1
    /\ view.zoom = Fraction(5, 1)
    /\ Len(entities) = 2
    /\ entities[1].type = "text" /\ entities[2].type = "text"
    /\ entities[2].x = entities[1].x + 4 /\ entities[2].y = entities[1].y + 4

\* ------------------------------------------------------------------ Delete
\* C23: Delete, by the ribbon button or the Delete/Backspace key and under any tool,
\* removes exactly the selected entities, keeps the others unchanged and in order and
\* leaves the block definitions as they are, also when an Insert is deleted; and no
\* step of the program removes or alters a block definition that exists.
C23_DeleteKeepsBlockDefs ==
    [][/\ \A d \in blockDefs : d \in blockDefs'
       /\ (deleteSelected \/ KeyDelete) =>
              /\ entities' = SelectSeq(entities, LAMBDA e : ~e.selected)
              /\ blockDefs' = blockDefs]_vars

\* The Delete button has just removed a selected Insert under the armed INSERT_BLOCK
\* tool and the block it refers to is still defined.
C23_InsertDeleted ==
    /\ lastEvent.op = "deleteSelected"
    /\ activeTool = "INSERT_BLOCK"
    /\ \E i \in 1..Len(lastEvent.removed) :
           /\ lastEvent.removed[i].type = "insert"
           /\ \E d \in blockDefs : d.name = lastEvent.removed[i].blockName
    /\ entities # <<>>

\* ------------------------------------------------------------------ the view
\* The screen point c lies over the same world point under the views v and w:
\* (c - v) / v.zoom = (c - w) / w.zoom on both axes, multiplied out.
SameWorldPoint(c, v, w) ==
    /\ (c.x - v.x) * v.zoom.d * w.zoom.n = (c.x - w.x) * w.zoom.d * v.zoom.n
    /\ (c.y - v.y) * v.zoom.d * w.zoom.n = (c.y - w.y) * w.zoom.d * v.zoom.n

\* C24: a wheel step with the cursor at c leaves the world point under c where it is,
\* screenToWorld(c, view before) = screenToWorld(c, view after), and the new zoom is
\* the old zoom divided by 1.1 for a positive deltaY and multiplied by 1.1 otherwise.
C24_WheelAnchoredAtCursor ==
    [][\A c \in Pts, deltaY \in WheelDeltas :
          handleWheel(c, deltaY) =>
              /\ SameWorldPoint(c, view, view')
              /\ (OnGrid(c) => screenToWorld(c, view') = screenToWorld(c, view))
              /\ IF deltaY > 0
                 THEN view'.zoom.n * view.zoom.d * 11 = view.zoom.n * view'.zoom.d * 10
                 ELSE view'.zoom.n * view.zoom.d * 10 = view.zoom.n * view'.zoom.d * 11]_vars

\* The wheel has zoomed in about (60,80) from a panned view, and (60,80) is not the
\* view's origin.
C24_ZoomedInOffOrigin ==
    /\ lastEvent.op = "handleWheel" /\ lastEvent.at = Pt(60, 80) /\ lastEvent.deltaY < 0
    /\ view.zoom = Fraction(11, 10)
    /\ view.x = 60 - 132 /\ view.y = 80 - 176

\* No entity of the list has a point the bounding box of zoomExtents takes: the list
\* holds arcs and inserts only.
NothingToBox(list) == \A i \in 1..Len(list) : list[i].type \in {"arc", "insert"}

\* C25: zoomExtents sets the view to the default view, offset (0,0) and zoom 1, when
\* the list is empty and when no entity contributes a finite bounding box.
C25_ExtentsResetsWithoutBox ==
    [][\A size \in ViewportSizes :
          (zoomExtents(size) /\ NothingToBox(entities)) => view' = DefaultView]_vars

\* Extents has just run over a list of one arc with the view zoomed in about (60,80),
\* and the view is still the zoomed one.
C25_ExtentsLeftZoomedView ==
    /\ lastEvent.op = "zoomExtents" /\ ~lastEvent.boxed
    /\ Len(entities) = 1 /\ entities[1].type = "arc"
    /\ view = [x |-> -6, y |-> -8, zoom |-> Fraction(11, 10)]
    /\ lastEvent.before = view

\* C26: view.zoom is strictly positive in every reachable state, after any sequence
\* of wheel zooms, resets and zoomExtents calls, for every list and viewport size.
C26_ZoomPositive == view.zoom.n > 0 /\ view.zoom.d > 0

\* Extents has just fitted two texts at (0,0) and (60,80) into a viewport 40 wide and
\* 20 high and the zoom is -1.
C26_NegativeZoom ==
    /\ lastEvent.op = "zoomExtents" /\ lastEvent.boxed
    /\ lastEvent.size = [width |-> 40, height |-> 20]
    /\ Len(entities) = 2
    /\ \A i \in 1..2 : entities[i].type = "text"
    /\ {Pt(entities[i].x, entities[i].y) : i \in 1..2} = Pts
    /\ view = [x |-> 50, y |-> 50, zoom |-> Fraction(-1, 1)]

\* ------------------------------------------------------------------ presses
\* The list has grown by exactly one entity, which is e but for its id.
AppendedOne(e) ==
    /\ Len(entities') = Len(entities) + 1
    /\ SubSeq(entities', 1, Len(entities)) = entities
    /\ [entities'[Len(entities')] EXCEPT !.id = 0] = [e EXCEPT !.id = 0]

\* C27: a TEXT press whose prompt is cancelled or left empty changes no state: no
\* entity is created and activeTool, drawingStart, tempPoints and activeBlockName are
\* as they were; a non-empty content appends exactly one text at the pointer and sets
\* the tool to SELECT.
C27_TextCancelChangesNothing ==
    [][\A p \in PtsOne, content \in TextAnswers :
          MouseDownText(p, content) =>
              IF content \in {NoName, ""}
              THEN UNCHANGED <<entities, activeTool, drawingStart, tempPoints, activeBlockName>>
              ELSE /\ AppendedOne([id |-> 0, type |-> "text", x |-> screenToWorld(p, view).x,
                                   y |-> screenToWorld(p, view).y, content |-> content,
                                   fontSize |-> 12, selected |-> FALSE])
                   /\ activeTool' = "SELECT"]_vars

\* A TEXT prompt was cancelled on an empty drawing and the press point is left in
\* drawingStart.
C27_CancelLeftAnchor ==
    /\ lastEvent = [op |-> "MouseDownText", content |-> NoName]
    /\ activeTool = "TEXT"
    /\ entities = <<>>
    /\ drawingStart = Pt(0, 0)

\* C28: a TABLE press appends a table at the pointer, with rowHeight 20 and colWidth
\* 60, and returns to SELECT only when the prompt yields two positive integers; for
\* every other answer (cancelled, non-numeric, zero or negative) no entity is created
\* and the tool state is unchanged.
C28_TableNeedsPositiveCounts ==
    [][\A p \in PtsOne, ans \in TableAnswers :
          MouseDownTable(p, ans) =>
              IF ans.kind = "nums" /\ ans.r > 0 /\ ans.c > 0
              THEN /\ AppendedOne([id |-> 0, type |-> "table", x |-> screenToWorld(p, view).x,
                                   y |-> screenToWorld(p, view).y, rows |-> ans.r,
                                   cols |-> ans.c, rowHeight |-> 20, colWidth |-> 60,
                                   selected |-> FALSE])
                   /\ activeTool' = "SELECT"
              ELSE UNCHANGED <<entities, toolVars>>]_vars

\* The answer "-1,2" has put a table of -1 rows into the list and set the tool to
\* SELECT.
C28_NegativeRowsTable ==
    /\ lastEvent.op = "MouseDownTable" /\ lastEvent.ans = [kind |-> "nums", r |-> -1, c |-> 2]
    /\ activeTool = "SELECT"
    /\ entities # <<>>
    /\ entities[Len(entities)].type = "table" /\ entities[Len(entities)].rows = -1

\* C29: under DOOR, and under INSERT_BLOCK with a block armed, every press appends
\* exactly one entity at the pointer, a door or an Insert with blockName =
\* activeBlockName, scale 1 and rotation 0, and leaves activeTool and activeBlockName
\* as they are, so n presses in a row create n entities.
C29_PressPlacesOneAndStays ==
    [][\A p \in Pts :
          /\ MouseDownDoor(p) =>
                 /\ AppendedOne([id |-> 0, type |-> "door", x |-> screenToWorld(p, view).x,
                                 y |-> screenToWorld(p, view).y, width |-> 40,
                                 rotation |-> 0, selected |-> FALSE])
                 /\ UNCHANGED <<activeTool, activeBlockName>>
          /\ (MouseDownInsert(p) /\ activeBlockName # NoName) =>
                 /\ AppendedOne([id |-> 0, type |-> "insert", blockName |-> activeBlockName,
                                 insertPoint |-> screenToWorld(p, view), scale |-> 1,
                                 rotation |-> 0, selected |-> FALSE])
                 /\ UNCHANGED <<activeTool, activeBlockName>>]_vars

\* Two presses in a row have placed two inserts of B1 at (0,0) and (60,80) and the tool
\* is still the armed INSERT_BLOCK.
C29_TwoInsertsPlaced ==
    /\ lastEvent.op = "MouseDownInsert"
    /\ activeTool = "INSERT_BLOCK" /\ activeBlockName = "B1"
    /\ Len(entities) >= 2
    /\ LET a == entities[Len(entities) - 1]
           b == entities[Len(entities)]
       IN  /\ a.type = "insert" /\ a.blockName = "B1" /\ a.insertPoint = Pt(0, 0)
           /\ b.type = "insert" /\ b.blockName = "B1" /\ b.insertPoint = Pt(60, 80)

\* The three points of an arc lie on one line.
Collinear(a) ==
    (a.p2.x - a.p1.x) * (a.p3.y - a.p1.y) = (a.p3.x - a.p1.x) * (a.p2.y - a.p1.y)

\* C30: a CENTERMARK press, wherever the pointer is, takes the first entity in list
\* order that is a circle or an arc and is not selected; for a circle it appends one
\* centermark with the circle's center and size = 1.2 * radius; when there is no such
\* entity, or it is an arc with collinear points, nothing is appended; the tool stays
\* CENTERMARK and no buffer changes.
C30_CentermarkTakesFirstUnselected ==
    [][\A p \in Pts :
          MouseDownCentermark(p) =>
              LET cand == {i \in 1..Len(entities) :
                              entities[i].type \in {"circle", "arc"} /\ ~entities[i].selected}
                  h == CHOOSE i \in cand : \A j \in cand : i <= j
              IN  /\ activeTool' = "CENTERMARK"
                  /\ UNCHANGED <<drawingStart, tempPoints, activeBlockName>>
                  /\ IF cand = {} THEN entities' = entities
                     ELSE IF entities[h].type = "circle"
                     THEN /\ Len(entities') = Len(entities) + 1
                          /\ SubSeq(entities', 1, Len(entities)) = entities
                          /\ entities'[Len(entities')].type = "centermark"
                          /\ entities'[Len(entities')].center = entities[h].center
                          /\ 5 * entities'[Len(entities')].size = 6 * entities[h].radius
                     ELSE Collinear(entities[h]) => entities' = entities]_vars

\* A CENTERMARK press has marked the circle about (0,0) that follows a selected arc
\* in the list: the mark has the circle's center and size 120.
C30_SelectedArcSkipped ==
    /\ lastEvent.op = "MouseDownCentermark"
    /\ Len(entities) = 3
    /\ entities[1].type = "arc" /\ entities[1].selected
    /\ entities[2].type = "circle" /\ ~entities[2].selected /\ entities[2].radius = 100
    /\ entities[3].type = "centermark"
    /\ entities[3].center = entities[2].center /\ entities[3].size = 120

\* ------------------------------------------------------------------ tool state
\* C31: activeBlockName is non-null only while activeTool = INSERT_BLOCK, in every
\* reachable state, also after another tool is picked from the ribbon while
\* INSERT_BLOCK is armed.
C31_BlockNameOnlyWhileArmed == activeBlockName # NoName => activeTool = "INSERT_BLOCK"

\* The ribbon has just switched an armed INSERT_BLOCK to another tool and the block
\* name is still set.
C31_NameSurvivesRibbon ==
    /\ lastEvent.op = "SetTool"
    /\ activeTool = "WALL"
    /\ activeBlockName = "B1"

\* C36: tempPoints is empty in every reachable state where activeTool is neither
\* POLYLINE nor ARC, so that points buffered under POLYLINE never become the p1 of an
\* arc after a switch to ARC from the ribbon.
C36_BufferOnlyUnderChainTools == tempPoints # <<>> => activeTool \in {"POLYLINE", "ARC"}

\* The ribbon has just switched away from POLYLINE with a point buffered.
C36_BufferSurvivesRibbon ==
    /\ lastEvent.op = "SetTool"
    /\ activeTool \notin {"POLYLINE", "ARC"}
    /\ tempPoints = <<Pt(0, 0)>>

\* C39: drawingStart is non-null only while activeTool is WALL, RECT, CIRCLE,
\* DIMENSION or LEADER, in every reachable state, also after a cancelled TEXT prompt
\* and after a switch of tools from the ribbon.
C39_AnchorOnlyUnderTwoClickTools ==
    drawingStart # Null => activeTool \in {"WALL", "RECT", "CIRCLE", "DIMENSION", "LEADER"}

\* The ribbon has just switched from an anchored two-click tool to SELECT and the
\* anchor is still set.
C39_AnchorSurvivesRibbon ==
    /\ lastEvent.op = "SetTool"
    /\ activeTool = "SELECT"
    /\ drawingStart = Pt(0, 0)

\* C37: whenever activeTool = INSERT_BLOCK, activeBlockName is non-null and names a
\* block definition that exists; and insertBlock changes nothing when no definition
\* exists, when the prompt is cancelled and when the entered name is not defined.
C37_ArmedNamesDefinedBlock ==
    [][/\ activeTool' = "INSERT_BLOCK" =>
              /\ activeBlockName' # NoName
              /\ \E d \in blockDefs' : d.name = activeBlockName'
       /\ \A name \in PromptNames :
              (/\ insertBlock(name)
               /\ \/ blockDefs = {}
                  \/ name = NoName
                  \/ ~\E d \in blockDefs : d.name = name) =>
                  UNCHANGED <<entities, blockDefs, view, toolVars, dragVars, nextId>>]_vars

\* The name "constructor" has armed INSERT_BLOCK although the one block defined is B1,
\* and the preview of the armed block has unmounted the component.
C37_ArmedInheritedName ==
    /\ lastEvent.op = "insertBlock"
    /\ activeTool = "INSERT_BLOCK" /\ activeBlockName = "constructor"
    /\ {d.name : d \in blockDefs} = {"B1"}
    /\ ~mounted

\* ------------------------------------------------------------------ segment hits
\* The square of the distance from q to its projection on the segment s-en, parameter
\* clamped to [0,1], is below tol * tol; s # en.
ProjectionWithin(q, s, en, tol) ==
    LET l2 == DistSq(s, en)
        dot == (q.x - s.x) * (en.x - s.x) + (q.y - s.y) * (en.y - s.y)
    IN  IF dot <= 0 THEN DistSq(q, s) < tol * tol
        ELSE IF dot >= l2 THEN DistSq(q, en) < tol * tol
        ELSE l2 * DistSq(q, s) - dot * dot < tol * tol * l2

\* The entities a plain SELECT press at world point q leaves selected are exactly the
\* first one in list order that satisfies near, if any.
SelectsFirst(q, near) ==
    /\ Len(entities') = Len(entities)
    /\ \A i \in 1..Len(entities) :
           entities'[i].selected <=> (i \in near /\ \A j \in near : i <= j)

\* C32: a wall, dimension or leader is struck exactly when the distance from the point
\* to its projection on the start-end segment, parameter clamped to [0,1], is below 8
\* world units, whatever the thickness: the wall (0,0)-(100,0) is struck at (50,6) and
\* not at (50,20).
C32_SegmentStruckWithinEight ==
    [][\A p \in HitPts :
          MouseDownSelect(p, FALSE) =>
              LET q == screenToWorld(p, view)
              IN  SelectsFirst(q, {i \in 1..Len(entities) :
                      IF entities[i].start = entities[i].end
                      THEN DistSq(q, entities[i].start) < 8 * 8
                      ELSE ProjectionWithin(q, entities[i].start, entities[i].end, 8)})]_vars

\* C32 as the code has it: a segment of zero length is struck within 10 world units of
\* its start, every other one within 8 of the clamped projection.
C32_SegmentStruckWithinEightOrTen ==
    [][\A p \in HitPts :
          MouseDownSelect(p, FALSE) =>
              LET q == screenToWorld(p, view)
              IN  SelectsFirst(q, {i \in 1..Len(entities) :
                      IF entities[i].start = entities[i].end
                      THEN DistSq(q, entities[i].start) < 10 * 10
                      ELSE ProjectionWithin(q, entities[i].start, entities[i].end, 8)})]_vars

\* A dimension of zero length at (0,0) was struck by a press at (9,0).
C32_PointDimensionStruckAtNine ==
    /\ lastEvent.op = "MouseDownSelect" /\ lastEvent.at = Pt(9, 0)
    /\ Len(entities) = 1
    /\ entities[1].type = "dimension" /\ entities[1].selected
    /\ entities[1].start = Pt(0, 0) /\ entities[1].end = Pt(0, 0)

\* ------------------------------------------------------------------ block references
\* C33: in every reachable state every insert of the live list names a block
\* definition that exists in blockDefs, after any sequence of createBlock,
\* INSERT_BLOCK presses, Copy, Mirror, Delete and interpreter batches.
C33_NoDanglingInsert ==
    \A i \in 1..Len(entities) :
        entities[i].type = "insert" => \E d \in blockDefs : d.name = entities[i].blockName

\* An interpreter batch has put an insert of B1 into the list while no block is
\* defined.
C33_InterpreterInsertDangles ==
    /\ lastEvent.op = "aiResponse"
    /\ blockDefs = {}
    /\ Len(entities) = 1
    /\ entities[1].type = "insert" /\ entities[1].blockName = "B1"

\* C38: no block definition ever contains an insert whose blockName is the
\* definition's own name, in any state reachable through createBlock, the drawing
\* tools and interpreter batches.
C38_NoSelfInsert ==
    \A d \in blockDefs :
        \A i \in 1..Len(d.entities) :
            d.entities[i].type = "insert" => d.entities[i].blockName # d.name

\* createBlock has stored under B1 the interpreter's insert of B1, and rendering the
\* live insert of B1 has unmounted the component.
C38_BlockHoldsItself ==
    /\ lastEvent.op = "createBlock" /\ lastEvent.ok /\ lastEvent.name = "B1"
    /\ \E d \in blockDefs :
           /\ d.name = "B1"
           /\ \E i \in 1..Len(d.entities) :
                  d.entities[i].type = "insert" /\ d.entities[i].blockName = "B1"
    /\ ~mounted

\* ------------------------------------------------------------------ release
\* C34: under WALL, RECT, CIRCLE, DIMENSION and LEADER a release that follows a press
\* leaves drawingStart null, whether or not an entity was committed; RECT commits only
\* when |w| > 5 and |h| > 5 and CIRCLE only when the radius exceeds 5; and every rect
\* the tool commits has positive width and height and its start at the minimum corner.
C34_ReleaseClearsAnchor ==
    [][\A ans \in LeaderAnswers :
          (/\ handleMouseUp(ans)
           /\ activeTool \in {"WALL", "RECT", "CIRCLE", "DIMENSION", "LEADER"}
           /\ drawingStart # Null) =>
              LET s == drawingStart
                  w == mousePos.x - s.x
                  h == mousePos.y - s.y
                  committed == Len(entities') = Len(entities) + 1
                  new == entities'[Len(entities')]
              IN  /\ drawingStart' = Null
                  /\ committed \/ Len(entities') = Len(entities)
                  /\ (activeTool = "RECT" /\ committed) =>
                         /\ Abs(w) > 5 /\ Abs(h) > 5
                         /\ new.type = "rect"
                         /\ new.width > 0 /\ new.height > 0
                         /\ new.start.x <= s.x /\ new.start.x <= mousePos.x
                         /\ new.start.y <= s.y /\ new.start.y <= mousePos.y
                         /\ new.start.x \in {s.x, mousePos.x}
                         /\ new.start.y \in {s.y, mousePos.y}
                  /\ (activeTool = "CIRCLE" /\ committed) =>
                         /\ new.type = "circle"
                         /\ DistSq(s, mousePos) > 5 * 5
                         /\ new.radius > 5]_vars

\* A rect was released at (-60,-80) from the anchor (0,0): it starts at (-60,-80), is
\* 60 wide and 80 high, and the anchor is cleared.
C34_RectDrawnBackwards ==
    /\ lastEvent.op = "MouseUp" /\ lastEvent.tool = "RECT" /\ lastEvent.anchored
    /\ lastEvent.from = Pt(0, 0) /\ lastEvent.at = Pt(-60, -80)
    /\ drawingStart = Null
    /\ entities # <<>>
    /\ LET new == entities[Len(entities)]
       IN  new.type = "rect" /\ new.start = Pt(-60, -80) /\ new.width = 60 /\ new.height = 80

\* Entity c is entity e with every positional field moved by the screen distance
\* (dx, dy) divided by the zoom, and nothing else changed.
DraggedBy(e, c, dx, dy, zoom) ==
    LET Moved(q, r) == /\ (r.x - q.x) * zoom.n = dx * zoom.d
                       /\ (r.y - q.y) * zoom.n = dy * zoom.d
    IN  /\ DOMAIN c = DOMAIN e
        /\ \A f \in DOMAIN e :
               IF f = "x" THEN (c[f] - e[f]) * zoom.n = dx * zoom.d
               ELSE IF f = "y" THEN (c[f] - e[f]) * zoom.n = dy * zoom.d
               ELSE IF f = "points"
                    THEN /\ Len(c[f]) = Len(e[f])
                         /\ \A i \in 1..Len(e[f]) : Moved(e[f][i], c[f][i])
               ELSE IF f \in PositionalFields THEN Moved(e[f], c[f])
               ELSE c[f] = e[f]

\* From the list and view (before, v) a left-button drag over the screen distance
\* (dx, dy) leads to (after, w): with a selection the selected entities are dragged and
\* the rest and the view are kept, without one the view pans and the list is kept.
DragOutcome(before, v, after, w, dx, dy) ==
    IF \E i \in 1..Len(before) : before[i].selected
    THEN /\ w = v
         /\ Len(after) = Len(before)
         /\ \A i \in 1..Len(before) :
                IF before[i].selected THEN DraggedBy(before[i], after[i], dx, dy, v.zoom)
                ELSE after[i] = before[i]
    ELSE /\ after = before
         /\ w = [v EXCEPT !.x = @ + dx, !.y = @ + dy]

\* C35: during a SELECT-mode left-button drag each pointer move either shifts every
\* selected entity's positional fields by (dx, dy) / zoom, leaving unselected entities
\* and the view unchanged, or (nothing selected) pans the view by (dx, dy), leaving
\* the list unchanged; and since the drag began the total shift equals (last pointer -
\* press pointer) / zoom.
C35_DragMovesSelectionOrPans ==
    /\ [][(/\ lastEvent'.op = "MouseMove" /\ lastEvent'.buttons = 1
           /\ isDragging /\ dragStart # Null /\ activeTool = "SELECT")
          => /\ dragStart' = lastEvent'.at
             /\ DragOutcome(entities, view, entities', view',
                            lastEvent'.at.x - dragStart.x,
                            lastEvent'.at.y - dragStart.y)]_vars
    /\ [](( /\ lastEvent.op = "MouseMove" /\ lastEvent.buttons = 1
            /\ isDragging /\ activeTool = "SELECT" /\ lastEvent.since.at # Null)
          => DragOutcome(lastEvent.since.entities, lastEvent.since.view, entities, view,
                         lastEvent.at.x - lastEvent.since.at.x,
                         lastEvent.at.y - lastEvent.since.at.y))

\* At zoom 10/11 a drag pressed at (0,0) has reached (60,80): the selected text went
\* from (0,0) to (66,88), the unselected text stayed at (0,0).
C35_DraggedAtZoom ==
    /\ lastEvent.op = "MouseMove" /\ lastEvent.buttons = 1
    /\ isDragging /\ activeTool = "SELECT"
    /\ view.zoom = [n |-> 10, d |-> 11]
    /\ lastEvent.since.at = Pt(0, 0) /\ lastEvent.at = Pt(60, 80)
    /\ Len(entities) = 2 /\ lastEvent.since.entities # entities
    /\ \E i, j \in 1..2 :
           /\ entities[i].selected /\ entities[i].x = 66 /\ entities[i].y = 88
           /\ lastEvent.since.entities[i].x = 0
           /\ ~entities[j].selected /\ entities[j].x = 0 /\ entities[j].y = 0

\* C40: every delivered outcome (success, empty text or failure) leaves isLoading
\* false; isLoading is true whenever a request is in flight; and under fair delivery
\* isLoading is eventually false after every submit.
C40_BusyUntilDelivered ==
    /\ [][Len(requests') < Len(requests) => ~isLoading']_vars
    /\ [](Len(requests) > 0 => isLoading)
    /\ (isLoading ~> ~isLoading)

\* The two parts of C40 that hold: delivery clears the flag, and the flag is eventually
\* clear under fair delivery.
C40_DeliveryClearsBusy ==
    /\ [][Len(requests') < Len(requests) => ~isLoading']_vars
    /\ (isLoading ~> ~isLoading)

\* One of two requests was answered: isLoading is false while the other is in flight.
C40_IdleWithRequestInFlight ==
    /\ lastEvent.op = "aiResponse" /\ lastEvent.pending = 1
    /\ Len(requests) = 1
    /\ ~isLoading

====
